---- MODULE Spec2Model ----
(***************************************************************************)
(* A model of echopype's multi-file combination engine                     *)
(* (convert/convert_combine.py).  perform_combination is modelled one      *)
(* io.save_file call at a time, so that the order of the writes, their     *)
(* modes and the partial output left by an exception are states of the     *)
(* model.  The output container at output_path is the variable out; it     *)
(* outlives a call, as the file on disk does.                              *)
(***************************************************************************)
EXTENDS Integers, Sequences, FiniteSets, TLC

VARIABLES pc, sonar_model, input_paths, engine, out, log, err, utcnow, rerun,
          disk, source_paths, save_path, ed, ret, ping_time, seconds, tree,
          removal, convert_obj, outputs, trace

\* the state of a call of perform_combination and of its output
combineVars == <<pc, sonar_model, input_paths, engine, out, log, err, utcnow,
                 rerun>>

\* the argument and the result of get_combined_save_path
pathVars == <<source_paths, save_path>>

\* an EchoData object and the outcome of the last operation on it
edVars == <<ed, ret>>

\* a timestamp of a time axis and the number the group writers store for it
timeVars == <<ping_time, seconds>>

\* the file system remove_indiv_files works on and its last call
fsVars == <<tree, removal>>

\* the parsed file a group writer (SetGroupsEK60, SetGroupsEK80) saves, its
\* output containers and the writes save has made
writerVars == <<convert_obj, outputs, trace>>

vars == <<combineVars, disk, pathVars, edVars, timeVars, fsVars, writerVars>>

(***************************************************************************)
(* Bounds of the model.                                                    *)
(***************************************************************************)
\* longest input_paths list a call is given
MaxFiles == 2
\* the clock readings dt.utcnow() may return are 0..MaxClock ticks
MaxClock == 3
\* clock ticks per second: the clock is finer than the second
TicksPerSecond == 2

(***************************************************************************)
(* The converted per-file containers that exist on disk.  Each is a        *)
(* conformant single-file output of the converter; the combiner reads them *)
(* and never writes them.  They are the three files of one deployment of   *)
(* the sonar model in question, in the order a.nc, b.nc, c.nc in time.     *)
(* a.nc and b.nc agree in everything that is not indexed by time.  In an   *)
(* AZFP deployment c.nc differs from b.nc in one attribute of the Platform *)
(* group and from a.nc also in one of its variables; in the deployments of *)
(* the other models c.nc has another channel, differs from b.nc in the     *)
(* attributes of a Vendor variable and from a.nc in the value of one.      *)
(***************************************************************************)
Paths == {"a.nc", "b.nc", "c.nc"}

SonarModels == {"AZFP", "EK60", "EK80", "EA640"}

Engines == {"netcdf4", "zarr"}

GroupNames == {"TopLevel", "Sonar", "Provenance", "Beam", "Environment",
               "Platform", "Platform/NMEA", "Vendor"}

\* the time axes a group of a converted file is indexed by
Axes == {"ping_time", "location_time", "mru_time"}

\* the coordinate values of one time axis of one file (seconds since 1900)
AxisValues(path, axis) ==
    CASE path = "a.nc" /\ axis = "ping_time"     -> <<1, 2>>
      [] path = "a.nc" /\ axis = "location_time" -> <<1>>
      [] path = "a.nc" /\ axis = "mru_time"      -> <<1, 2>>
      [] path = "b.nc" /\ axis = "ping_time"     -> <<3>>
      [] path = "b.nc" /\ axis = "location_time" -> <<3, 4>>
      [] path = "b.nc" /\ axis = "mru_time"      -> <<3>>
      [] path = "c.nc" /\ axis = "ping_time"     -> <<5, 6>>
      [] path = "c.nc" /\ axis = "location_time" -> <<5>>
      [] path = "c.nc" /\ axis = "mru_time"      -> <<6>>

\* the channel identifiers (frequency axis) of one file
Channels(model, path) ==
    IF model # "AZFP" /\ path = "c.nc" THEN {"ch120"} ELSE {"ch38"}

\* a variable without time axis: its value and its own attributes
Var(value, units) == [v |-> value, units |-> units]

\* the variables of a file's Platform group that have no time axis
PlatformVars(model, path) ==
    IF model = "AZFP"
    THEN CASE path = "a.nc" -> [water_level |-> Var(0, "m"), tilt |-> Var(1, "deg")]
           [] path = "b.nc" -> [water_level |-> Var(0, "m")]
           [] path = "c.nc" -> [water_level |-> Var(0, "m"), tilt |-> Var(2, "deg")]
    ELSE [water_level |-> Var(0, "m")]

\* the group-level attributes of a file's Platform group
PlatformAttrs(model, path) ==
    IF model = "AZFP" /\ path = "c.nc"
    THEN [platform_name |-> "mooring2"]
    ELSE [platform_name |-> "mooring1"]

\* the variables of a file's Vendor group
VendorVars(model, path) ==
    IF model = "AZFP"
    THEN [gain |-> Var(1, "dB")]
    ELSE CASE path = "a.nc" -> [gain |-> Var(1, "dB"), filter |-> Var(1, "")]
           [] path = "b.nc" -> [gain |-> Var(1, "dB")]
           [] path = "c.nc" -> [gain |-> Var(1, "decibel"),
                                filter |-> Var(2, "")]

\* the widths of the text fields of a file's Beam group
TextWidth(path, field) ==
    CASE path = "a.nc" /\ field = "channel_id"       -> 20
      [] path = "a.nc" /\ field = "software_version" -> 6
      [] path = "b.nc" /\ field = "channel_id"       -> 24
      [] path = "b.nc" /\ field = "software_version" -> 8
      [] path = "c.nc" /\ field = "channel_id"       -> 60
      [] path = "c.nc" /\ field = "software_version" -> 12

\* the root group and the Sonar group of a file: attributes only
TopLevelOf(path) == [group |-> "TopLevel", from |-> path]

SonarOf(path) == [group |-> "Sonar", from |-> path]

\* every non-empty list of at most MaxFiles paths
InputLists == UNION {[1..n -> Paths] : n \in 1..MaxFiles}

(***************************************************************************)
(* The output container.                                                   *)
(***************************************************************************)
\* a group the container does not hold
Absent == [absent |-> TRUE]

\* no file at output_path
NoContainer == [g \in GroupNames |-> Absent]

\* io.save_file(ds, path, mode, engine, group): mode 'w' creates the
\* container anew with this group only, mode 'a' adds or replaces the group
SaveFile(container, group, ds, mode) ==
    IF mode = "w"
    THEN [g \in GroupNames |-> IF g = group THEN ds ELSE Absent]
    ELSE [container EXCEPT ![group] = ds]

(***************************************************************************)
(* xr.open_mfdataset.  Without combine='nested' it combines by             *)
(* coordinates (the comment at convert_combine.py:85-89): the files are    *)
(* ordered by the first value of every dimension coordinate that differs   *)
(* between them, whatever their order in the list, and the combined index  *)
(* must be monotonic.  With combine='nested' and no concat_dim it merges   *)
(* the variables under the given compat.  The group-level attributes of    *)
(* the result are those of the first file of the list.                     *)
(***************************************************************************)
\* the rows of one file along one axis, each tagged with its file
Rows(path, axis) ==
    [i \in 1..Len(AxisValues(path, axis)) |->
        [src |-> path, t |-> AxisValues(path, axis)[i]]]

FirstItem(path, axis) == AxisValues(path, axis)[1]

\* the axes whose coordinates differ between the files: the dimensions
\* the files are concatenated along
ConcatDims(paths, axes) ==
    {x \in axes : \E i \in 1..Len(paths) :
                    AxisValues(paths[i], x) # AxisValues(paths[1], x)}

\* the position of file i along an axis: the dense rank of its first value
Rank(paths, i, axis) ==
    Cardinality({j \in {FirstItem(paths[k], axis) : k \in 1..Len(paths)} :
                    j < FirstItem(paths[i], axis)})

TileId(paths, i, axes) ==
    [x \in ConcatDims(paths, axes) |-> Rank(paths, i, x)]

\* the tiles are kept in a dictionary keyed by tile id: of two files at
\* the same position the later one of the list replaces the earlier
Kept(paths, axes) ==
    {i \in 1..Len(paths) :
        \A j \in (i + 1)..Len(paths) :
            TileId(paths, j, axes) # TileId(paths, i, axes)}

ChosenAt(paths, axes, axis, r) ==
    CHOOSE i \in Kept(paths, axes) :
        /\ Rank(paths, i, axis) = r
        /\ \A j \in Kept(paths, axes) : Rank(paths, j, axis) = r => j <= i

NumRanks(paths, axis) ==
    Cardinality({FirstItem(paths[j], axis) : j \in 1..Len(paths)})

RECURSIVE ConcatFrom(_, _, _, _)
\* the rows of the tiles at positions r, r+1, ... along an axis
ConcatFrom(paths, axes, axis, r) ==
    IF r >= NumRanks(paths, axis)
    THEN <<>>
    ELSE Rows(paths[ChosenAt(paths, axes, axis, r)], axis)
         \o ConcatFrom(paths, axes, axis, r + 1)

\* a combination that keeps the rows of the first file only
CombinedAxisFirstOnly(paths, axes, axis) == Rows(paths[1], axis)

\* the combined rows along one axis of the group
CombinedAxis(paths, axes, axis) ==
    IF axis \in ConcatDims(paths, axes)
    THEN ConcatFrom(paths, axes, axis, 0)
    ELSE Rows(paths[1], axis)

Monotonic(rows) ==
    \A i \in 1..(Len(rows) - 1) : rows[i].t <= rows[i + 1].t

\* combine_by_coords raises when several files differ in no dimension
\* coordinate, or when a combined index is not monotonic
CoordsCombinable(paths, axes) ==
    \/ Len(paths) = 1
    \/ /\ ConcatDims(paths, axes) # {}
       /\ \A x \in ConcatDims(paths, axes) :
            Monotonic(CombinedAxis(paths, axes, x))

\* the frequency axis of the combined group: the outer join of the files'
UnionChannels(model, paths, axes) ==
    UNION {Channels(model, paths[i]) : i \in Kept(paths, axes)}

\* two variables of the same name under a compat: 'identical' compares the
\* values and the variables' attributes, 'no_conflicts' the values only
Compatible(x, y, compat) ==
    IF compat = "identical" THEN x = y ELSE x.v = y.v

\* no two files disagree on a variable they share
Mergeable(maps, compat) ==
    \A i, j \in 1..Len(maps) :
        \A k \in (DOMAIN maps[i]) \cap (DOMAIN maps[j]) :
            Compatible(maps[i][k], maps[j][k], compat)

\* the union of the variables, each from the first file that has it
Merged(maps) ==
    [k \in UNION {DOMAIN maps[i] : i \in 1..Len(maps)} |->
        maps[CHOOSE i \in 1..Len(maps) :
                /\ k \in DOMAIN maps[i]
                /\ \A j \in 1..(i - 1) : k \notin DOMAIN maps[j]][k]]

(***************************************************************************)
(* perform_combination: what it passes to open_mfdataset and save_file.    *)
(***************************************************************************)
\* get_versions()['version']
ECHOPYPE_VERSION == "version"

\* DEFAULT_CHUNK_SIZE
RangeBinChunk == 25000

PingTimeChunk == 2500

\* the widths coerce_type casts the Beam text fields to
VersionWidth == 10

ChannelIdWidth == 50

\* the chunk sizes in the zarr branch of the per-file writers
WriterRangeBinChunk == 25000

WriterTimeChunk == 100

\* the models whose per-file writers are SetGroupsEK60 and SetGroupsEK80
WriterModels == {"EK60", "EK80", "EA640"}

SaveExts == {".nc", ".zarr"}

\* the chunk sizes the per-file writers SetGroupsEK60 and SetGroupsEK80 give
\* a group before they write it: set_platform and set_beam chunk, and only
\* for a '.zarr' output; the other writers pass the dataset as it is
WriterChunks(model, group, save_ext) ==
    IF save_ext # ".zarr"
    THEN <<>>
    ELSE CASE group = "Beam" ->
                [range_bin |-> WriterRangeBinChunk,
                 ping_time |-> WriterTimeChunk]
           [] group = "Platform" /\ model = "EK60" ->
                [location_time |-> WriterTimeChunk,
                 ping_time |-> WriterTimeChunk]
           [] group = "Platform" /\ model # "EK60" ->
                [location_time |-> WriterTimeChunk,
                 mru_time |-> WriterTimeChunk]
           [] OTHER -> <<>>

\* every group written in create mode
SaveModeAlwaysCreate(group) == "w"

\* every group written in append mode
SaveModeAlwaysAppend(group) == "a"

\* the mode of the save_file call that writes a group
SaveMode(group) == IF group = "TopLevel" THEN "w" ELSE "a"

\* the models whose Platform/NMEA group is combined
HasNMEA(model) == model \in {"EK60", "EK80", "EA640"}

\* the EK60 branch written as a copy of the EK80 branch
PlatformPolicyCopied(model) ==
    IF model = "AZFP"
    THEN [combine |-> "nested", compat |-> "identical", concat_dim |-> {}]
    ELSE [combine |-> "by_coords", compat |-> "no_conflicts",
          concat_dim |-> {"location_time", "mru_time"}]

\* the arguments of the open_mfdataset call that combines the Platform group
PlatformPolicy(model) ==
    CASE model = "AZFP" ->
            [combine |-> "nested", compat |-> "identical", concat_dim |-> {}]
      [] model \in {"EK80", "EA640"} ->
            [combine |-> "by_coords", compat |-> "no_conflicts",
             concat_dim |-> {"location_time", "mru_time"}]
      [] model = "EK60" ->
            [combine |-> "by_coords", compat |-> "no_conflicts",
             concat_dim |-> {"location_time", "ping_time"}]

\* taking the two groups from the last file of the list instead
LastInput(paths) == paths[Len(paths)]

\* the file the TopLevel and Sonar groups are taken from: input_paths[0]
FirstInput(paths) == paths[1]

\* the order with the Environment group combined before the Beam group
GroupSequenceEnvFirst(model) ==
    <<"TopLevel", "Sonar", "Provenance", "Environment", "Beam", "Platform">>
    \o (IF model \in {"EK60", "EK80", "EA640"}
        THEN <<"Platform/NMEA">> ELSE <<>>)
    \o <<"Vendor">>

\* the groups in the order perform_combination writes them
GroupSequence(model) ==
    <<"TopLevel", "Sonar", "Provenance", "Beam", "Environment", "Platform">>
    \o (IF HasNMEA(model) THEN <<"Platform/NMEA">> ELSE <<>>)
    \o <<"Vendor">>

\* where perform_combination goes after writing a group
NextGroup(model, group) ==
    LET seq == GroupSequence(model)
        i == CHOOSE k \in 1..Len(seq) : seq[k] = group
    IN  IF i = Len(seq) THEN "done" ELSE seq[i + 1]

\* datetime.isoformat(timespec='seconds') + 'Z' of a clock reading: the
\* reading cut to whole seconds, then the UTC marker
IsoFormatSeconds(t) == [seconds |-> t \div TicksPerSecond, suffix |-> "Z"]

\* a provenance that records the first source file only
ProvenanceOfFirstSource(paths, t) ==
    [conversion_software_name |-> "echopype",
     conversion_software_version |-> ECHOPYPE_VERSION,
     conversion_time |-> IsoFormatSeconds(t),
     src_filenames |-> <<paths[1]>>]

\* assemble_combined_provenance(input_paths), the clock reading t
AssembleCombinedProvenance(paths, t) ==
    [conversion_software_name |-> "echopype",
     conversion_software_version |-> ECHOPYPE_VERSION,
     conversion_time |-> IsoFormatSeconds(t),
     src_filenames |-> paths]

\* the width numpy gives a text field concatenated from several files
NaturalWidth(paths, axes, field) ==
    LET ws == {TextWidth(paths[i], field) : i \in Kept(paths, axes)}
    IN  CHOOSE w \in ws : \A u \in ws : u <= w

\* coerce_type without its astype calls
CoerceTypeNone(model, paths, axes, field) == NaturalWidth(paths, axes, field)

\* coerce_type with the astype calls applied whatever the sonar model
CoerceTypeAll(model, paths, axes, field) ==
    IF field = "software_version" THEN VersionWidth ELSE ChannelIdWidth

\* coerce_type(ds, group): the widths of the two text fields of the Beam
\* group after the astype calls
CoerceType(model, paths, axes, field) ==
    IF model \in {"EK80", "EK60"}
    THEN IF field = "software_version" THEN VersionWidth ELSE ChannelIdWidth
    ELSE NaturalWidth(paths, axes, field)

\* the Beam group of the combined file
CombinedBeam(model, paths) ==
    [ping_time |-> CombinedAxis(paths, {"ping_time"}, "ping_time"),
     channels |-> UnionChannels(model, paths, {"ping_time"}),
     text |-> [f \in {"software_version", "channel_id"} |->
                  CoerceType(model, paths, {"ping_time"}, f)],
     chunks |-> [range_bin |-> RangeBinChunk, ping_time |-> PingTimeChunk]]

\* the Environment group chunked as the per-file writers chunk ping_time
CombinedEnvironmentWriterChunk(paths) ==
    [ping_time |-> CombinedAxis(paths, {"ping_time"}, "ping_time"),
     chunks |-> [ping_time |-> WriterTimeChunk]]

\* the Environment group of the combined file
CombinedEnvironment(paths) ==
    [ping_time |-> CombinedAxis(paths, {"ping_time"}, "ping_time"),
     chunks |-> [ping_time |-> PingTimeChunk]]

\* the sequence of the files' Platform variables
PlatformMaps(model, paths) ==
    [i \in 1..Len(paths) |-> PlatformVars(model, paths[i])]

\* whether the open_mfdataset call on the Platform group returns
PlatformCombinable(model, paths) ==
    LET pol == PlatformPolicy(model)
    IN  /\ Mergeable(PlatformMaps(model, paths), pol.compat)
        /\ pol.combine = "by_coords" => CoordsCombinable(paths, pol.concat_dim)

\* the Platform group of the combined file
CombinedPlatform(model, paths) ==
    LET pol == PlatformPolicy(model)
    IN  [policy |-> pol,
         axes |-> [x \in pol.concat_dim |->
                      CombinedAxis(paths, pol.concat_dim, x)],
         vars |-> Merged(PlatformMaps(model, paths)),
         attrs |-> PlatformAttrs(model, paths[1]),
         chunks |-> [x \in pol.concat_dim |-> PingTimeChunk]]

\* the Platform/NMEA group of the combined file
CombinedNMEA(paths) ==
    [location_time |-> CombinedAxis(paths, {"location_time"}, "location_time"),
     dtype |-> "str",
     chunks |-> [location_time |-> PingTimeChunk]]

VendorMaps(model, paths) ==
    [i \in 1..Len(paths) |-> VendorVars(model, paths[i])]

\* the Vendor group of the combined file
CombinedVendor(model, paths) == [vars |-> Merged(VendorMaps(model, paths))]

(***************************************************************************)
(* The state machine.  pc is the group perform_combination writes next,    *)
(* "done" after it has returned and "failed" after it has raised; log is   *)
(* the save_file calls of the current call, err the exception that left    *)
(* it and the group it was combining, utcnow the clock reading it took,    *)
(* and rerun whether the call repeats, with the same arguments, the call   *)
(* that returned just before it.                                           *)
(***************************************************************************)
NoError == [kind |-> "none", group |-> "none"]

\* perform_combination removing its inputs as it goes
DropInputs == disk' = disk \ {input_paths[i] : i \in 1..Len(input_paths)}

\* perform_combination has no statement that deletes or writes an input
\* container: it opens them with xr.open_dataset and xr.open_mfdataset and
\* writes to output_path only
KeepInputs == disk' = disk

\* every container of the list exists, so that xarray can open them
Readable(paths) == \A i \in 1..Len(paths) : paths[i] \in disk

\* get_combined_save_path has not been called
NotCalled == [kind |-> "none"]

PathIdle ==
    /\ source_paths = <<>>
    /\ save_path = NotCalled

\* no EchoData object has been constructed
NoSession == [session |-> FALSE]

NoReturn == [op |-> "none"]

EdIdle ==
    /\ ed = NoSession
    /\ ret = NoReturn

\* no timestamp has been normalised
TimeIdle ==
    /\ ping_time = <<>>
    /\ seconds = [kind |-> "none"]

\* remove_indiv_files works on no file system
FsIdle ==
    /\ tree = {}
    /\ removal = [kind |-> "none"]

\* no group writer has been constructed
WriterIdle ==
    /\ convert_obj = [kind |-> "none"]
    /\ outputs = <<>>
    /\ trace = <<>>

Init ==
    /\ PathIdle
    /\ EdIdle
    /\ TimeIdle
    /\ FsIdle
    /\ WriterIdle
    /\ pc = "idle"
    /\ sonar_model \in SonarModels
    /\ input_paths \in InputLists
    /\ engine \in Engines
    /\ out = NoContainer
    /\ log = <<>>
    /\ err = NoError
    /\ utcnow = 0
    /\ rerun = FALSE
    /\ disk = Paths

\* a caller calls perform_combination(sonar_model, input_paths, output_path,
\* engine); no call is in progress
Call(model, paths, eng) ==
    /\ pc \in {"idle", "done", "failed"}
    /\ sonar_model' = model
    /\ input_paths' = paths
    /\ engine' = eng
    /\ pc' = "TopLevel"
    /\ log' = <<>>
    /\ err' = NoError
    /\ rerun' = (pc = "done" /\ model = sonar_model /\ paths = input_paths
                    /\ eng = engine)
    /\ UNCHANGED <<out, utcnow>>
    /\ KeepInputs
    /\ UNCHANGED <<pathVars, edVars, timeVars, fsVars, writerVars>>

\* io.save_file(ds, path=output_path, mode=..., group=...) returns
Written(group, ds) ==
    /\ out' = SaveFile(out, group, ds, SaveMode(group))
    /\ log' = Append(log, [group |-> group, mode |-> SaveMode(group)])
    /\ pc' = NextGroup(sonar_model, group)
    /\ UNCHANGED <<sonar_model, input_paths, engine, err, rerun>>
    /\ KeepInputs
    /\ UNCHANGED <<pathVars, edVars, timeVars, fsVars, writerVars>>

\* an exception handler that removes the partial output
RaisedAndRemoved(e) ==
    /\ pc' = "failed"
    /\ err' = [kind |-> e, group |-> pc]
    /\ out' = NoContainer
    /\ UNCHANGED <<sonar_model, input_paths, engine, log, utcnow, rerun>>
    /\ KeepInputs
    /\ UNCHANGED <<pathVars, edVars, timeVars, fsVars, writerVars>>

\* an exception leaves perform_combination while it combines the group at
\* pc: nothing catches it
Raised(e) ==
    /\ pc' = "failed"
    /\ err' = [kind |-> e, group |-> pc]
    /\ UNCHANGED <<sonar_model, input_paths, engine, out, log, utcnow, rerun>>
    /\ KeepInputs
    /\ UNCHANGED <<pathVars, edVars, timeVars, fsVars, writerVars>>

SaveTopLevel ==
    /\ pc = "TopLevel"
    /\ IF Readable(<<FirstInput(input_paths)>>)
       THEN /\ Written("TopLevel", TopLevelOf(FirstInput(input_paths)))
            /\ UNCHANGED utcnow
       ELSE Raised("FileNotFoundError")

SaveSonar ==
    /\ pc = "Sonar"
    /\ IF Readable(<<FirstInput(input_paths)>>)
       THEN /\ Written("Sonar", SonarOf(FirstInput(input_paths)))
            /\ UNCHANGED utcnow
       ELSE Raised("FileNotFoundError")

SaveProvenance ==
    /\ pc = "Provenance"
    /\ \E t \in 0..MaxClock :
         /\ utcnow' = t
         /\ Written("Provenance", AssembleCombinedProvenance(input_paths, t))

SaveBeam ==
    /\ pc = "Beam"
    /\ IF ~Readable(input_paths)
       THEN Raised("FileNotFoundError")
       ELSE
       IF CoordsCombinable(input_paths, {"ping_time"})
       THEN /\ Written("Beam", CombinedBeam(sonar_model, input_paths))
            /\ UNCHANGED utcnow
       ELSE Raised("ValueError")

SaveEnvironment ==
    /\ pc = "Environment"
    /\ IF ~Readable(input_paths)
       THEN Raised("FileNotFoundError")
       ELSE
       IF CoordsCombinable(input_paths, {"ping_time"})
       THEN /\ Written("Environment", CombinedEnvironment(input_paths))
            /\ UNCHANGED utcnow
       ELSE Raised("ValueError")

SavePlatform ==
    /\ pc = "Platform"
    /\ IF ~Readable(input_paths)
       THEN Raised("FileNotFoundError")
       ELSE
       IF PlatformCombinable(sonar_model, input_paths)
       THEN /\ Written("Platform", CombinedPlatform(sonar_model, input_paths))
            /\ UNCHANGED utcnow
       ELSE Raised(IF Mergeable(PlatformMaps(sonar_model, input_paths),
                                PlatformPolicy(sonar_model).compat)
                   THEN "ValueError" ELSE "MergeError")

SaveNMEA ==
    /\ pc = "Platform/NMEA"
    /\ IF ~Readable(input_paths)
       THEN Raised("FileNotFoundError")
       ELSE
       IF CoordsCombinable(input_paths, {"location_time"})
       THEN /\ Written("Platform/NMEA", CombinedNMEA(input_paths))
            /\ UNCHANGED utcnow
       ELSE Raised("ValueError")

SaveVendor ==
    /\ pc = "Vendor"
    /\ IF ~Readable(input_paths)
       THEN Raised("FileNotFoundError")
       ELSE
       IF Mergeable(VendorMaps(sonar_model, input_paths), "no_conflicts")
       THEN /\ Written("Vendor", CombinedVendor(sonar_model, input_paths))
            /\ UNCHANGED utcnow
       ELSE Raised("MergeError")

Next ==
    \/ \E model \in SonarModels, paths \in InputLists, eng \in Engines :
          Call(model, paths, eng)
    \/ SaveTopLevel
    \/ SaveSonar
    \/ SaveProvenance
    \/ SaveBeam
    \/ SaveEnvironment
    \/ SavePlatform
    \/ SaveNMEA
    \/ SaveVendor

Spec == Init /\ [][Next]_vars

(***************************************************************************)
(* The caller's other operation on the converted files: after a call, or   *)
(* before one, it may remove a file with remove_indiv_files.  A call on a   *)
(* list that names a removed file fails where it first opens that file.    *)
(***************************************************************************)
\* remove_indiv_files(path): rmtree, os.remove or fs.delete of the path;
\* on a path that does not exist they raise and nothing changes
RemoveIndivFiles(path) ==
    /\ pc \in {"idle", "done", "failed"}
    /\ disk' = disk \ {path}
    /\ UNCHANGED <<combineVars, pathVars, edVars, timeVars, fsVars,
                   writerVars>>

\* the files on the disk are those of one instrument, so the caller's calls
\* differ in the list they pass
NextFiles ==
    \/ \E paths \in InputLists : Call(sonar_model, paths, engine)
    \/ SaveTopLevel
    \/ SaveSonar
    \/ SaveProvenance
    \/ SaveBeam
    \/ SaveEnvironment
    \/ SavePlatform
    \/ SaveNMEA
    \/ SaveVendor
    \/ \E path \in Paths : RemoveIndivFiles(path)

SpecFiles == Init /\ [][NextFiles]_vars

(***************************************************************************)
(* Paths as text.  A path is a sequence of pieces: the separator "/", the  *)
(* dot ".", and words, which hold neither; the text of the path is the     *)
(* pieces one after the other.  The words of the model are "x", "nc" and   *)
(* "zarr", and "__combined", which get_combined_save_path inserts.         *)
(***************************************************************************)
\* longest path, in pieces
MaxPathLen == 5

Pieces == {"/", ".", "x", "nc", "zarr"}

RECURSIVE Strings(_)
\* the paths of n pieces
Strings(n) ==
    IF n = 0
    THEN {<<>>}
    ELSE {Append(p, c) : p \in Strings(n - 1), c \in Pieces}

PathStrings == UNION {Strings(n) : n \in 0..MaxPathLen}

\* str.rfind of a one-character piece, 0 when it does not occur
RFind(p, c) ==
    LET at == {i \in 1..Len(p) : p[i] = c}
    IN  IF at = {} THEN 0 ELSE CHOOSE i \in at : \A j \in at : j <= i

\* os.path.splitext(p): the extension starts at the last dot of the last
\* component, unless only dots come before it in that component
SplitExt(p) ==
    LET sepIndex == RFind(p, "/")
        dotIndex == RFind(p, ".")
    IN  IF /\ dotIndex > sepIndex
           /\ \E i \in (sepIndex + 1)..(dotIndex - 1) : p[i] # "."
        THEN [fname |-> SubSeq(p, 1, dotIndex - 1),
              ext |-> SubSeq(p, dotIndex, Len(p))]
        ELSE [fname |-> p, ext |-> <<>>]

DotNc == <<".", "nc">>

DotZarr == <<".", "zarr">>

(***************************************************************************)
(* get_combined_save_path.  An element of source_paths is a path string or *)
(* an FSMap, of the local or of a remote file system, with the path as its *)
(* root.                                                                   *)
(***************************************************************************)
SourceKinds == {"str", "FSMap_local", "FSMap_remote"}

Source(kind, path) == [kind |-> kind, path |-> path]

\* what may follow the first element of source_paths
OtherSources ==
    {<<>>,
     <<Source("str", <<"x", ".", "zarr">>)>>,
     <<Source("FSMap_remote", <<"x", "/", "nc", ".", "nc">>),
       Source("str", <<"zarr">>)>>}

Combined == <<"__combined">>

\* the marker put after the whole path
GetCombinedFnameAppended(path) == path \o Combined

\* get_combined_fname(path)
GetCombinedFname(path) ==
    SplitExt(path).fname \o Combined \o SplitExt(path).ext

\* get_combined_save_path(source_paths): a path string, or a mapper of the
\* remote file system the first element is on
GetCombinedSavePath(paths) ==
    LET sample_file == paths[1]
    IN  [kind |-> IF sample_file.kind = "FSMap_remote"
                  THEN "FSMap_remote" ELSE "str",
         path |-> GetCombinedFname(sample_file.path)]

InitPath ==
    /\ \E kind \in SourceKinds, path \in PathStrings, rest \in OtherSources :
          source_paths = <<Source(kind, path)>> \o rest
    /\ save_path = NotCalled
    /\ EdIdle
    /\ TimeIdle
    /\ FsIdle
    /\ WriterIdle
    /\ pc = "idle"
    /\ sonar_model = "EK60"
    /\ input_paths = <<"a.nc">>
    /\ engine = "netcdf4"
    /\ out = NoContainer
    /\ log = <<>>
    /\ err = NoError
    /\ utcnow = 0
    /\ rerun = FALSE
    /\ disk = Paths

\* a caller calls get_combined_save_path(source_paths)
CallGetCombinedSavePath ==
    /\ save_path = NotCalled
    /\ save_path' = GetCombinedSavePath(source_paths)
    /\ UNCHANGED <<source_paths, combineVars, disk, edVars, timeVars, fsVars,
                   writerVars>>

NextPath == CallGetCombinedSavePath

SpecPath == InitPath /\ [][NextPath]_vars

(***************************************************************************)
(* EchoDataBase (process/echodata.py): for each of five products a stored  *)
(* path, _X_path, and a view, _X, the dataset opened from it.  ed is the   *)
(* object, ret the last operation on it with its arguments and what it     *)
(* did: returned, raised, or printed the notice of a view that is not      *)
(* there.                                                                  *)
(***************************************************************************)
Products == {"raw", "Sv", "Sv_clean", "TS", "MVBS"}

\* the order in which __init__ assigns the paths
InitOrder == <<"raw", "Sv", "Sv_clean", "TS", "MVBS">>

\* Python values: None, a str, a list of str, and a value of another type
None == [none |-> TRUE]

Str(p) == [str |-> p]

List(l) == [list |-> l]

OtherValue == [int |-> 42]

IsStr(v) == DOMAIN v = {"str"}

IsList(v) == DOMAIN v = {"list"}

\* the files and the directory of the model: x.nc, nc.nc and the store
\* x.zarr in the working directory, and the directory x with x/nc.nc and
\* x/x.nc in it
FileX == <<"x", ".", "nc">>

FileNc == <<"nc", ".", "nc">>

StoreX == <<"x", ".", "zarr">>

DirX == <<"x">>

InDirNc == <<"x", "/", "nc", ".", "nc">>

InDirX == <<"x", "/", "x", ".", "nc">>

EdFiles == {FileX, FileNc, StoreX, InDirNc, InDirX}

\* a list in no order that names a file twice
ListXNcX == <<FileX, FileNc, FileX>>

\* the values a caller assigns to X_path
Specs ==
    {None, Str(FileX), Str(DirX), Str(<<"x", ".", "x">>), Str(<<".", "nc">>),
     Str(<<>>), List(<<>>), List(ListXNcX), OtherValue}

AllSpecs == Specs \cup {Str(StoreX)}

\* the raw data may also be the zarr store
SpecsOf(prod) == IF prod = "raw" THEN AllSpecs ELSE Specs

\* io.get_files_from_dir(path): for a directory, its immediate children
\* with a container extension, in lexical order; on a path that is no
\* directory it raises or finds nothing
GetFilesFromDir(path) ==
    IF path = DirX
    THEN {[ok |-> TRUE, files |-> List(<<InDirNc, InDirX>>)]}
    ELSE {[ok |-> TRUE, files |-> List(<<>>)],
          [ok |-> FALSE, error |-> "FileNotFoundError"]}

\* _update_file_list accepting every string as a directory or a file
UpdateFileListLenient(path) ==
    IF IsStr(path)
    THEN IF SplitExt(path.str).ext \in {DotNc, DotZarr}
         THEN {[ok |-> TRUE, files |-> path]}
         ELSE GetFilesFromDir(path.str)
    ELSE IF IsList(path)
         THEN {[ok |-> TRUE, files |-> path]}
         ELSE {[ok |-> FALSE, error |-> "ValueError"]}

\* _update_file_list storing a list sorted and without its duplicates
UpdateFileListSorted(path) ==
    IF IsStr(path)
    THEN LET ext == SplitExt(path.str).ext
         IN  IF ext = <<>>
             THEN GetFilesFromDir(path.str)
             ELSE IF ext \in {DotNc, DotZarr}
                  THEN {[ok |-> TRUE, files |-> path]}
                  ELSE {[ok |-> FALSE, error |-> "ValueError"]}
    ELSE IF IsList(path)
         THEN {[ok |-> TRUE,
                files |-> IF path.list = ListXNcX
                          THEN List(<<FileNc, FileX>>) ELSE path]}
         ELSE {[ok |-> FALSE, error |-> "ValueError"]}

\* _update_file_list(path, file_list): what it stores in the attribute
\* file_list, or the error it raises
UpdateFileList(path) ==
    IF IsStr(path)
    THEN LET ext == SplitExt(path.str).ext
         IN  IF ext = <<>>
             THEN GetFilesFromDir(path.str)
             ELSE IF ext \in {DotNc, DotZarr}
                  THEN {[ok |-> TRUE, files |-> path]}
                  ELSE {[ok |-> FALSE, error |-> "ValueError"]}
    ELSE IF IsList(path)
         THEN {[ok |-> TRUE, files |-> path]}
         ELSE {[ok |-> FALSE, error |-> "ValueError"]}

\* the files xr.open_mfdataset(paths) is to open: the matches of a string,
\* the elements of a list
FilesToOpen(paths) ==
    IF IsStr(paths)
    THEN IF paths.str \in EdFiles THEN <<paths.str>> ELSE <<>>
    ELSE paths.list

\* the dataset opened from the files
Opened(files) == [opened |-> files]

\* xr.open_mfdataset(paths): it raises when there is nothing to open or a
\* file is not there; whether it opens a zarr store without being given
\* the engine depends on the xarray that is installed
OpenMfdataset(paths) ==
    LET files == FilesToOpen(paths)
        ok == [ok |-> TRUE, view |-> Opened(files)]
        no == [ok |-> FALSE, error |-> "OSError"]
    IN  IF files = <<>> \/ \E i \in 1..Len(files) : files[i] \notin EdFiles
        THEN {no}
        ELSE IF \E i \in 1..Len(files) : SplitExt(files[i]).ext = DotZarr
             THEN {ok, no}
             ELSE {ok}

Returned == "returned"

Exception(e) == e

\* _update_data_pointer that clears every product when it is given None
UpdateDataPointerClearAll(e, prod, path) ==
    IF path = None
    THEN {[ed |-> [e EXCEPT !.path = [p \in Products |-> None],
                            !.view = [p \in Products |-> None]],
           ret |-> Returned]}
    ELSE UNION {
           IF ~r.ok
           THEN {[ed |-> e, ret |-> Exception(r.error)]}
           ELSE {IF o.ok
                 THEN [ed |-> [e EXCEPT !.path[prod] = r.files,
                                        !.view[prod] = o.view],
                       ret |-> Returned]
                 ELSE [ed |-> [e EXCEPT !.path[prod] = r.files],
                       ret |-> Exception(o.error)]
                 : o \in OpenMfdataset(r.files)}
           : r \in UpdateFileList(path)}

\* _update_data_pointer(path, arr_type) on the object e: the objects it may
\* leave, each with the outcome of the call
UpdateDataPointer(e, prod, path) ==
    IF path = None
    THEN {[ed |-> [e EXCEPT !.path[prod] = None, !.view[prod] = None],
           ret |-> Returned]}
    ELSE UNION {
           IF ~r.ok
           THEN {[ed |-> e, ret |-> Exception(r.error)]}
           ELSE {IF o.ok
                 THEN [ed |-> [e EXCEPT !.path[prod] = r.files,
                                        !.view[prod] = o.view],
                       ret |-> Returned]
                 ELSE [ed |-> [e EXCEPT !.path[prod] = r.files],
                       ret |-> Exception(o.error)]
                 : o \in OpenMfdataset(r.files)}
           : r \in UpdateFileList(path)}

\* the object __init__ has before it assigns the paths
NewObject ==
    [session |-> TRUE,
     path |-> [p \in Products |-> None],
     view |-> [p \in Products |-> None],
     file_format |-> None,
     open_dataset |-> None]

\* str.endswith
EndsWith(p, suffix) ==
    /\ Len(p) >= Len(suffix)
    /\ SubSeq(p, Len(p) - Len(suffix) + 1, Len(p)) = suffix

\* _set_file_format() and _set_dataset_handlers(): raw_path has the method
\* endswith only when it is a str
SetFileFormat(e) ==
    IF ~IsStr(e.path["raw"])
    THEN [ed |-> e, ret |-> Exception("AttributeError")]
    ELSE IF EndsWith(e.path["raw"].str, DotNc)
         THEN [ed |-> [e EXCEPT !.file_format = "netcdf",
                                !.open_dataset = "xr.open_dataset"],
               ret |-> Returned]
         ELSE IF EndsWith(e.path["raw"].str, DotZarr)
              THEN [ed |-> [e EXCEPT !.file_format = "zarr",
                                     !.open_dataset = "xr.open_zarr"],
                    ret |-> Returned]
              ELSE [ed |-> e, ret |-> Returned]

RECURSIVE InitPaths(_, _, _)
\* the assignments self.raw_path = raw_path, self.Sv_path = Sv_path, ...
\* of __init__ from the i-th on, and then the file format; an exception
\* leaves __init__
InitPaths(e, args, i) ==
    IF i > Len(InitOrder)
    THEN {SetFileFormat(e)}
    ELSE UNION {
           IF r.ret = Returned
           THEN InitPaths(r.ed, args, i + 1)
           ELSE {r}
           : r \in UpdateDataPointer(e, InitOrder[i], args[InitOrder[i]])}

\* the values that are None or the one netCDF file
PlainSpecs == {None, Str(FileX)}

\* the product is unset, or set to the one netCDF file and opened from it
Plain(prod) ==
    \/ ed.path[prod] = None /\ ed.view[prod] = None
    \/ ed.path[prod] = Str(FileX) /\ ed.view[prod] = Opened(<<FileX>>)

\* the arguments of the constructor: at most one of them is not plain
ArgLists ==
    {[p \in Products |-> IF p = q THEN val ELSE plain[p]] :
        q \in Products, val \in AllSpecs,
        plain \in [Products -> PlainSpecs]}

InitEd ==
    /\ EdIdle
    /\ PathIdle
    /\ TimeIdle
    /\ FsIdle
    /\ WriterIdle
    /\ pc = "idle"
    /\ sonar_model = "EK60"
    /\ input_paths = <<"a.nc">>
    /\ engine = "netcdf4"
    /\ out = NoContainer
    /\ log = <<>>
    /\ err = NoError
    /\ utcnow = 0
    /\ rerun = FALSE
    /\ disk = Paths

\* ed = EchoDataBase(raw_path, Sv_path, Sv_clean_path, TS_path, MVBS_path):
\* when __init__ raises there is no object
Construct(args) ==
    /\ ed = NoSession
    /\ ret = NoReturn
    /\ \E r \in InitPaths(NewObject, args, 1) :
          /\ ed' = IF r.ret = Returned THEN r.ed ELSE NoSession
          /\ ret' = [op |-> "init", args |-> args, kind |-> r.ret]
    /\ UNCHANGED <<combineVars, disk, pathVars, timeVars, fsVars, writerVars>>

\* ed.X_path = val, for the product X: the path setters
AssignPath(prod, val) ==
    /\ ed # NoSession
    /\ \E r \in UpdateDataPointer(ed, prod, val) :
          /\ ed' = r.ed
          /\ ret' = [op |-> "assign", product |-> prod, arg |-> val,
                     kind |-> r.ret]
    /\ UNCHANGED <<combineVars, disk, pathVars, timeVars, fsVars, writerVars>>

\* the values a caller assigns to a view: None, or a dataset it has opened
\* itself
UserViews == {None, Opened(<<FileNc>>)}

\* ed.X = val, for the product X: the view setters store the value and
\* leave the path as it is
AssignView(prod, val) ==
    /\ ed # NoSession
    /\ ed' = [ed EXCEPT !.view[prod] = val]
    /\ ret' = [op |-> "view", product |-> prod, arg |-> val, kind |-> Returned]
    /\ UNCHANGED <<combineVars, disk, pathVars, timeVars, fsVars, writerVars>>

\* ed.X, for the product X: the view getters print a notice and return
\* None when the view is None, and return the view otherwise
ReadView(prod) ==
    /\ ed # NoSession
    /\ ret' = [op |-> "read", product |-> prod,
               kind |-> IF ed.view[prod] = None THEN "notice" ELSE Returned,
               value |-> ed.view[prod]]
    /\ UNCHANGED <<ed, combineVars, disk, pathVars, timeVars, fsVars,
                   writerVars>>

\* the caller works on one product at a time: while a product is not
\* plain, the values it assigns to the other products are plain
NextEd ==
    \/ /\ ret = NoReturn
       /\ \E args \in ArgLists :
             /\ \A p \in Products : args[p] \in SpecsOf(p)
             /\ Construct(args)
    \/ \E prod \in Products : \E val \in SpecsOf(prod) :
          /\ ed # NoSession
          /\ val \in PlainSpecs \/ \A q \in Products \ {prod} : Plain(q)
          /\ AssignPath(prod, val)
    \/ \E prod \in Products : \E val \in UserViews :
          /\ ed # NoSession
          /\ \A q \in Products \ {prod} : Plain(q)
          /\ AssignView(prod, val)
    \/ \E prod \in Products : ReadView(prod)

SpecEd == InitEd /\ [][NextEd]_vars

(***************************************************************************)
(* The time normalisation of the group writers                             *)
(* (set_groups_ek60.py:73-75, 164-166, 365-367; set_groups_ek80.py:        *)
(* 437-441): (ds['ping_time'] - np.datetime64('1900-01-01T00:00:00'))      *)
(* / np.timedelta64(1, 's').  The axis holds datetime64[ns] values, the    *)
(* difference is a 64-bit count of nanoseconds, and the division is        *)
(* numpy's true division of two timedelta64: both counts are converted to  *)
(* float64 and divided, each step rounding to the nearest float64, ties to *)
(* even.  The counts exceed the integers of the model checker, so numbers  *)
(* are sequences of limbs, least significant first, in radix 2^10.         *)
(***************************************************************************)
\* nanoseconds sampled after each chosen instant: 0..MaxJitter
MaxJitter == 2

Radix == 2^10

\* the limbs of a natural number below 2^31
RECURSIVE FromInt(_)
FromInt(n) == IF n = 0 THEN <<>> ELSE <<n % Radix>> \o FromInt(n \div Radix)

\* without the zero limbs at the top
RECURSIVE Trim(_)
Trim(a) ==
    IF a # <<>> /\ a[Len(a)] = 0 THEN Trim(SubSeq(a, 1, Len(a) - 1)) ELSE a

\* a + c for a small c
RECURSIVE AddSmall(_, _)
AddSmall(a, c) ==
    IF c = 0 THEN a
    ELSE IF a = <<>> THEN FromInt(c)
    ELSE <<(a[1] + c) % Radix>> \o AddSmall(Tail(a), (a[1] + c) \div Radix)

RECURSIVE MulCarry(_, _, _)
MulCarry(a, c, carry) ==
    IF a = <<>> THEN FromInt(carry)
    ELSE <<(a[1] * c + carry) % Radix>>
            \o MulCarry(Tail(a), c, (a[1] * c + carry) \div Radix)

\* a * c for c below 2^21
MulSmall(a, c) == Trim(MulCarry(a, c, 0))

\* quotient and remainder of a by d, for d below 2^21
RECURSIVE DivMod(_, _)
DivMod(a, d) ==
    IF a = <<>> THEN [quot |-> <<>>, rem |-> 0]
    ELSE LET hi == DivMod(Tail(a), d)
             cur == hi.rem * Radix + a[1]
         IN  [quot |-> Trim(<<cur \div d>> \o hi.quot), rem |-> cur % d]

\* a * 2^s
ShiftLeft(a, s) ==
    IF a = <<>> THEN <<>>
    ELSE [i \in 1..(s \div 10) |-> 0] \o MulSmall(a, 2^(s % 10))

\* the number of binary digits of a
BitLen(a) ==
    IF a = <<>> THEN 0
    ELSE 10 * (Len(a) - 1)
            + CHOOSE b \in 1..10 : 2^(b - 1) <= a[Len(a)] /\ a[Len(a)] < 2^b

\* a < b
RECURSIVE Less(_, _)
Less(a, b) ==
    IF Len(a) # Len(b) THEN Len(a) < Len(b)
    ELSE IF a = <<>> THEN FALSE
    ELSE IF a[Len(a)] # b[Len(b)] THEN a[Len(a)] < b[Len(b)]
    ELSE Less(SubSeq(a, 1, Len(a) - 1), SubSeq(b, 1, Len(b) - 1))

RECURSIVE SubBorrow(_, _, _)
SubBorrow(a, b, borrow) ==
    IF a = <<>> THEN <<>>
    ELSE LET d == a[1] - (IF b = <<>> THEN 0 ELSE b[1]) - borrow
         IN  <<IF d < 0 THEN d + Radix ELSE d>>
                \o SubBorrow(Tail(a), IF b = <<>> THEN <<>> ELSE Tail(b),
                             IF d < 0 THEN 1 ELSE 0)

\* the distance of a and b
Distance(a, b) ==
    IF Less(a, b) THEN Trim(SubBorrow(b, a, 0)) ELSE Trim(SubBorrow(a, b, 0))

\* the significand bits of float64
DoubleBits == 53

\* np.timedelta64(1, 's') in the unit of the axis: 10^9 ns = 2^9 * 5^9
PowerOfFive == 5^9
PowerOfTwo == 9

\* the conversion of a 64-bit count to a float of p significand bits: the
\* nearest one, ties to even.  It drops at most 20 bits here.
IntToFloat(a, p) ==
    IF BitLen(a) <= p THEN a
    ELSE LET k == BitLen(a) - p
             d == DivMod(a, 2^k)
             up == \/ d.rem > 2^(k - 1)
                   \/ d.rem = 2^(k - 1) /\ d.quot[1] % 2 = 1
         IN  ShiftLeft(IF up THEN AddSmall(d.quot, 1) ELSE d.quot, k)

\* a float: mant / 2^exp
Zero == [mant |-> <<>>, exp |-> 0]

\* the float of p significand bits nearest to a / 10^9, for a float a that
\* is an integer.  The quotient has p or p - 1 digits at the first shift
\* tried; 5^9 is odd, so there are no ties.
FloatDivide(a, p) ==
    IF a = <<>> THEN Zero
    ELSE LET s0 == p + 29 - BitLen(a)
             q0 == DivMod(ShiftLeft(a, s0 - PowerOfTwo), PowerOfFive).quot
             s == IF BitLen(q0) = p THEN s0 ELSE s0 + 1
             d == DivMod(ShiftLeft(a, s - PowerOfTwo), PowerOfFive)
         IN  [mant |-> IF 2 * d.rem > PowerOfFive THEN AddSmall(d.quot, 1)
                       ELSE d.quot,
              exp |-> s]

\* floor division, in1 // in2, which keeps the whole seconds
TimedeltaFloorDivide(count) ==
    [mant |-> DivMod(DivMod(count, PowerOfFive).quot, 2^PowerOfTwo).quot,
     exp |-> 0]

\* TIMEDELTA_mm_d_divide: (double)in1 / (double)in2 with in2 = 10^9
TimedeltaDivide(count) ==
    FloatDivide(IntToFloat(count, DoubleBits), DoubleBits)

\* the days from 1900-01-01 to 1970-01-01 and to 2100-01-01: 1900 and 2100
\* are no leap years, 2000 is one
DaysTo1970 == 70 * 365 + 17
DaysTo2100 == 200 * 365 + 49
SecondsPerDay == 24 * 3600

\* an instant: the day after 1900-01-01, the second of the day and the
\* nanosecond of the second
Days == {0, 1, 104, 105, DaysTo1970, DaysTo1970 + 18000, 53375, 53376,
         DaysTo2100 - 1}
SecondsOfDay == {0, 1, SecondsPerDay \div 2, SecondsPerDay - 1}
NanosOfSecond ==
    {base + d : base \in {0, 1000, 499999, 123456000, 10^9 - 1000,
                          10^9 - 1 - MaxJitter},
                d \in 0..MaxJitter}
Timestamps ==
    [day : Days, second : SecondsOfDay, nano : NanosOfSecond]

\* ds['ping_time'] - np.datetime64('1900-01-01T00:00:00'): the count of
\* nanoseconds from the epoch to the instant
SinceEpoch(t) ==
    AddSmall(MulSmall(MulSmall(AddSmall(MulSmall(FromInt(t.day),
                                                 SecondsPerDay),
                                        t.second),
                               PowerOfFive),
                      2^PowerOfTwo),
             t.nano)

\* the value assign_coords stores for the instant
NormalizeTime(t) == TimedeltaDivide(SinceEpoch(t))

InitTime ==
    /\ ping_time \in Timestamps
    /\ seconds = [kind |-> "none"]
    /\ PathIdle
    /\ EdIdle
    /\ FsIdle
    /\ WriterIdle
    /\ pc = "idle"
    /\ sonar_model = "EK60"
    /\ input_paths = <<"a.nc">>
    /\ engine = "netcdf4"
    /\ out = NoContainer
    /\ log = <<>>
    /\ err = NoError
    /\ utcnow = 0
    /\ rerun = FALSE
    /\ disk = Paths

\* a group writer normalises the time axis before it saves the group
AssignCoords ==
    /\ seconds = [kind |-> "none"]
    /\ seconds' = [kind |-> "float64", value |-> NormalizeTime(ping_time)]
    /\ UNCHANGED <<ping_time, combineVars, disk, pathVars, edVars, fsVars,
                   writerVars>>

NextTime == AssignCoords

SpecTime == InitTime /\ [][NextTime]_vars

(***************************************************************************)
(* remove_indiv_files on a file system (convert_combine.py:35-44).  The    *)
(* file system the path is on is a set of nodes, each a file or a          *)
(* directory; a node other than a top one exists only with the directory   *)
(* it is in.  The argument is a path string or an FSMap with the path as   *)
(* its root.                                                               *)
(***************************************************************************)
File(p) == [path |-> p, kind |-> "file"]

Directory(p) == [path |-> p, kind |-> "dir"]

\* two single-file containers, a directory-chunked store with a group in
\* it, a plain file that carries the extension of a store, and a directory
\* of converted files
AllNodes ==
    {File(<<"x", ".", "nc">>),
     File(<<"nc", ".", "nc">>),
     Directory(<<"x", ".", "zarr">>),
     File(<<"x", ".", "zarr", "/", "x">>),
     Directory(<<"x", ".", "zarr", "/", "nc">>),
     File(<<"x", ".", "zarr", "/", "nc", "/", "x">>),
     File(<<"nc", ".", "zarr">>),
     Directory(<<"x">>),
     File(<<"x", "/", "x", ".", "nc">>)}

\* the paths a caller passes: those of the top nodes, of a group inside the
\* store, and of nothing
RemovablePaths ==
    {<<"x", ".", "nc">>, <<"nc", ".", "nc">>, <<"x", ".", "zarr">>,
     <<"x", ".", "zarr", "/", "nc">>, <<"nc", ".", "zarr">>, <<"x">>,
     <<"zarr">>}

Exists(t, p) == \E n \in t : n.path = p

IsDir(t, p) == Directory(p) \in t

\* q is p or lies below the directory p
Under(p, q) ==
    \/ q = p
    \/ /\ Len(q) > Len(p) + 1
       /\ SubSeq(q, 1, Len(p) + 1) = p \o <<"/">>

Without(t, p) == {n \in t : ~Under(p, n.path)}

\* path.fs.delete(path.root, recursive=True)
FsDelete(t, p) ==
    IF ~Exists(t, p)
    THEN [tree |-> t, kind |-> Exception("FileNotFoundError")]
    ELSE [tree |-> Without(t, p), kind |-> Returned]

\* shutil.rmtree(path)
Rmtree(t, p) ==
    IF ~Exists(t, p)
    THEN [tree |-> t, kind |-> Exception("FileNotFoundError")]
    ELSE IF ~IsDir(t, p)
         THEN [tree |-> t, kind |-> Exception("NotADirectoryError")]
         ELSE [tree |-> Without(t, p), kind |-> Returned]

\* os.remove(path)
OsRemove(t, p) ==
    IF ~Exists(t, p)
    THEN [tree |-> t, kind |-> Exception("FileNotFoundError")]
    ELSE IF IsDir(t, p)
         THEN [tree |-> t, kind |-> Exception("IsADirectoryError")]
         ELSE [tree |-> t \ {File(p)}, kind |-> Returned]

\* remove_indiv_files removing every path with its tree
RemoveIndivFilesRecursive(t, path) == FsDelete(t, path.path)

\* remove_indiv_files(path) on the file system t
RemoveIndivFilesOn(t, path) ==
    IF path.kind # "str"
    THEN FsDelete(t, path.path)
    ELSE IF SplitExt(path.path).ext = DotZarr
         THEN Rmtree(t, path.path)
         ELSE OsRemove(t, path.path)

InitRemove ==
    /\ tree = AllNodes
    /\ removal = [kind |-> "none"]
    /\ PathIdle
    /\ EdIdle
    /\ TimeIdle
    /\ WriterIdle
    /\ pc = "idle"
    /\ sonar_model = "EK60"
    /\ input_paths = <<"a.nc">>
    /\ engine = "netcdf4"
    /\ out = NoContainer
    /\ log = <<>>
    /\ err = NoError
    /\ utcnow = 0
    /\ rerun = FALSE
    /\ disk = Paths

\* a caller calls remove_indiv_files(path)
CallRemoveIndivFiles(path) ==
    /\ tree' = RemoveIndivFilesOn(tree, path).tree
    /\ removal' = [kind |-> RemoveIndivFilesOn(tree, path).kind,
                   path |-> path, before |-> tree]
    /\ UNCHANGED <<combineVars, disk, pathVars, edVars, timeVars, writerVars>>

NextRemove ==
    \E kind \in SourceKinds, p \in RemovablePaths :
        CallRemoveIndivFiles(Source(kind, p))

SpecRemove == InitRemove /\ [][NextRemove]_vars

(***************************************************************************)
(* The group writers SetGroupsEK60 and SetGroupsEK80                       *)
(* (convert/set_groups_ek60.py, convert/set_groups_ek80.py).  save calls   *)
(* the set methods one after the other and each writes one group with      *)
(* to_netcdf or to_zarr; save is modelled one call at a time.  The object  *)
(* holds the parsed file (convert_obj), save_ext and the position of save; *)
(* outputs holds the container at output_path ("main") and the one at the  *)
(* '_cw' path ("cw"); trace lists the writes and the copy in their order.  *)
(* set_toplevel, set_provenance, set_nmea and the EK60 set_sonar are those *)
(* of SetGroupsBase.                                                        *)
(***************************************************************************)
\* the channels of the configuration datagram are 1..MaxChannels, in the
\* order of its keys
MaxChannels == 3

ConfigChannels == [i \in 1..MaxChannels |-> i]

\* the sequences that list every element of the set once
Orderings(S) ==
    {s \in [1..Cardinality(S) -> S] : \A i, j \in DOMAIN s : s[i] = s[j] => i = j}

\* the elements of the sequence that are in the set, in its order
RECURSIVE Keep(_, _)
Keep(s, S) ==
    IF s = <<>> THEN <<>>
    ELSE (IF s[1] \in S THEN <<s[1]>> ELSE <<>>) \o Keep(Tail(s), S)

Range(s) == {s[i] : i \in DOMAIN s}

\* config_datagram[...][ch][param]: the value the configuration gives a
\* channel for a parameter
Config(ch, param) == [config |-> param, channel |-> ch]

\* ping_data_dict[field][ch]: the values recorded ping by ping for a channel
PingData(field, ch) == [ping_data |-> field, channel |-> ch]

\* the data types of a parsed file: all datagrams, environment only,
\* position only
DataTypes == {"ALL", "ENV", "GPS"}

\* convert_obj.ch_ids of an EK80 file: every channel has complex or power
\* samples, and each list is in the order of the ping data
ChannelIdLists ==
    UNION {[complex : Orderings(S), power : Orderings(Range(ConfigChannels) \ S)]
              : S \in SUBSET Range(ConfigChannels)}

\* a container written by an earlier conversion
OldContainer == [g \in GroupNames |-> [old |-> TRUE]]

\* the groups that lie in the group, itself included
Nested(group) ==
    IF group = "Platform" THEN {"Platform", "Platform/NMEA"} ELSE {group}

\* ds.to_netcdf(path, mode, group): mode 'w' creates the file anew, mode
\* 'a' adds the group to it or replaces it
ToNetcdf(container, group, ds, mode) ==
    IF mode = "w"
    THEN [g \in GroupNames |-> IF g = group THEN ds ELSE Absent]
    ELSE [container EXCEPT ![group] = ds]

\* ds.to_zarr(store, mode, group): mode 'w' clears what the store has at
\* the group's path, which is everything for the root, and writes the
\* group; mode 'a' adds the group or replaces it
ToZarr(container, group, ds, mode) ==
    IF mode = "w"
    THEN [g \in GroupNames |->
             IF g = group THEN ds
             ELSE IF group = "TopLevel" \/ g \in Nested(group) THEN Absent
             ELSE container[g]]
    ELSE [container EXCEPT ![group] = ds]

\* the 15 channel-specific parameters of the EK80 Beam group
BeamParams ==
    {"beam_type", "beam_width_alongship", "beam_width_athwartship",
     "transducer_alpha_x", "transducer_alpha_y", "transducer_alpha_z",
     "angle_offset_alongship", "angle_offset_athwartship",
     "angle_sensitivity_alongship", "angle_sensitivity_athwartship",
     "transducer_offset_x", "transducer_offset_y", "transducer_offset_z",
     "equivalent_beam_angle", "transceiver_software_version"}

\* SetGroupsEK80.set_beam(ch_ids, bb, path): the dataset it saves.
\* beam_params is filled in the order of the ch_ids passed; ch_ids is then
\* replaced by the channels in the order of the configuration, which gives
\* channel_id, frequency and the ping-by-ping data
BeamEK80(ch_ids, bb, save_ext) ==
    LET chs == Keep(ConfigChannels, Range(ch_ids))
    IN  [channel_id |-> chs,
         frequency |->
             [i \in DOMAIN chs |-> Config(chs[i], "transducer_frequency")],
         params |->
             [p \in BeamParams |->
                 [i \in DOMAIN ch_ids |-> Config(ch_ids[i], p)]],
         backscatter |->
             [i \in DOMAIN chs |->
                 PingData(IF bb THEN "complex" ELSE "power", chs[i])],
         chunks |-> WriterChunks("EK80", "Beam", save_ext)]

\* SetGroupsEK80.set_sonar(ch_ids, path): the table lists every channel of
\* the configuration, the software attributes are those of ch_ids[0]
SonarEK80(ch_ids) ==
    [frequency |->
         [i \in DOMAIN ConfigChannels |->
             Config(ConfigChannels[i], "transducer_frequency")],
     serial_number |->
         [i \in DOMAIN ConfigChannels |->
             Config(ConfigChannels[i], "serial_number")],
     sonar_software_name |-> Config(ch_ids[1], "application_name"),
     sonar_software_version |-> Config(ch_ids[1], "application_version")]

\* SetGroupsEK80.set_vendor(ch_ids, bb, path): the calibration of the
\* channels passed, their pulse length tables when they are power
\* channels, and the filter coefficients of every channel of the file
VendorEK80(ch_ids, bb, all_ids) ==
    [calibration |-> [i \in DOMAIN ch_ids |-> Config(ch_ids[i], "calibration")],
     pulse_length |->
         IF bb THEN <<>>
         ELSE [i \in DOMAIN ch_ids |-> Config(ch_ids[i], "pulse_duration")],
     filters |-> [i \in DOMAIN all_ids |-> Config(all_ids[i], "fil_coeffs")]]

\* SetGroupsEK80.set_env and set_platform: the datasets they save
EnvEK80 == [sound_speed_indicative |-> [environment |-> "sound_speed"]]

PlatformEK80(save_ext) ==
    [water_level |-> [environment |-> "water_level_draft"],
     chunks |-> WriterChunks("EK80", "Platform", save_ext)]

\* SetGroupsEK60.set_env: the dataset it saves, channel by channel.
\* absorption_indicative is filled from ping_data_dict['sound_velocity']
\* and sound_speed_indicative from ping_data_dict['absorption_coefficient']
EnvEK60 ==
    [absorption_indicative |->
         [ch \in Range(ConfigChannels) |-> PingData("sound_velocity", ch)],
     sound_speed_indicative |->
         [ch \in Range(ConfigChannels) |->
             PingData("absorption_coefficient", ch)]]

\* SetGroupsEK60.set_platform, set_beam and set_vendor: the datasets
PlatformEK60(save_ext) ==
    [pitch |-> [ch \in Range(ConfigChannels) |-> PingData("pitch", ch)],
     chunks |-> WriterChunks("EK60", "Platform", save_ext)]

BeamEK60(save_ext) ==
    [channel_id |->
         [i \in DOMAIN ConfigChannels |->
             Config(ConfigChannels[i], "channel_id")],
     frequency |->
         [i \in DOMAIN ConfigChannels |->
             Config(ConfigChannels[i], "frequency")],
     backscatter |->
         [i \in DOMAIN ConfigChannels |-> PingData("power", ConfigChannels[i])],
     chunks |-> WriterChunks("EK60", "Beam", save_ext)]

VendorEK60 ==
    [sa_correction |->
         [i \in DOMAIN ConfigChannels |->
             Config(ConfigChannels[i], "sa_correction_table")]]

\* the datasets of the writers of SetGroupsBase
TopLevelDs(model) == [keywords |-> model]

ProvenanceDs == [conversion_software_name |-> "echopype"]

SonarEK60 == [sonar_manufacturer |-> "Simrad"]

NmeaDs == [NMEA_datagram |-> "raw"]

\* one call of a writer: what it saves, where, and in which mode
Step(writer, group, ds, path, mode) ==
    [writer |-> writer, group |-> group, ds |-> ds, path |-> path,
     mode |-> mode]

\* SetGroupsEK60.set_platform: mode 'a' in to_netcdf, mode 'w' in to_zarr
PlatformMode(save_ext) == IF save_ext = ".zarr" THEN "w" ELSE "a"

\* SetGroupsEK60.save: the calls it makes, in order
SaveEK60(obj) ==
    LET head == <<Step("set_toplevel", "TopLevel", TopLevelDs("EK60"),
                       "main", "w"),
                  Step("set_provenance", "Provenance", ProvenanceDs,
                       "main", "a"),
                  Step("set_sonar", "Sonar", SonarEK60, "main", "a")>>
        env == Step("set_env", "Environment", EnvEK60, "main", "a")
        platform == Step("set_platform", "Platform",
                         PlatformEK60(obj.save_ext), "main",
                         PlatformMode(obj.save_ext))
    IN  IF obj.data_type = "ENV" THEN head \o <<env>>
        ELSE IF obj.data_type = "GPS" THEN head \o <<platform>>
        ELSE head \o
             <<env, platform,
               Step("set_beam", "Beam", BeamEK60(obj.save_ext), "main", "a"),
               Step("set_nmea", "Platform/NMEA", NmeaDs, "main", "a"),
               Step("set_vendor", "Vendor", VendorEK60, "main", "a")>>

\* set_beam_type_specific_groups(ch_ids, bb, path)
SetBeamTypeSpecificGroups(obj, ch_ids, bb, path) ==
    <<Step("set_beam", "Beam", BeamEK80(ch_ids, bb, obj.save_ext), path, "a"),
      Step("set_sonar", "Sonar", SonarEK80(ch_ids), path, "a"),
      Step("set_vendor", "Vendor",
           VendorEK80(ch_ids, bb, obj.ch_ids.power \o obj.ch_ids.complex),
           path, "a")>>

CopyStep == [writer |-> "_copy_file"]

\* the groups all channels share
SharedEK80(obj) ==
    <<Step("set_env", "Environment", EnvEK80, "main", "a"),
      Step("set_platform", "Platform", PlatformEK80(obj.save_ext), "main",
           "a"),
      Step("set_nmea", "Platform/NMEA", NmeaDs, "main", "a")>>

\* the branch for complex and power data with the copy made after the
\* groups of the complex channels
BothKindsCallsCopyLate(obj) ==
    SetBeamTypeSpecificGroups(obj, obj.ch_ids.complex, TRUE, "main")
    \o <<CopyStep>>
    \o SetBeamTypeSpecificGroups(obj, obj.ch_ids.power, FALSE, "cw")

\* SetGroupsEK80.save, the branch for complex and power data: the output
\* is copied, then the groups of the complex channels go to the output and
\* those of the power channels to the copy
BothKindsCalls(obj) ==
    <<CopyStep>>
    \o SetBeamTypeSpecificGroups(obj, obj.ch_ids.complex, TRUE, "main")
    \o SetBeamTypeSpecificGroups(obj, obj.ch_ids.power, FALSE, "cw")

\* SetGroupsEK80.save: the calls it makes, in order
SaveEK80(obj) ==
    LET head == <<Step("set_toplevel", "TopLevel", TopLevelDs("EK80"),
                       "main", "w"),
                  Step("set_provenance", "Provenance", ProvenanceDs,
                       "main", "a")>>
    IN  IF obj.data_type = "ENV" THEN head \o <<SharedEK80(obj)[1]>>
        ELSE IF obj.data_type = "GPS" THEN head \o <<SharedEK80(obj)[2]>>
        ELSE head \o SharedEK80(obj) \o
             (IF obj.ch_ids.complex # <<>> /\ obj.ch_ids.power # <<>>
              THEN BothKindsCalls(obj)
              ELSE IF obj.ch_ids.complex # <<>>
                   THEN SetBeamTypeSpecificGroups(obj, obj.ch_ids.complex,
                                                  TRUE, "main")
                   ELSE SetBeamTypeSpecificGroups(obj, obj.ch_ids.power,
                                                  FALSE, "main"))

SaveCalls(obj) ==
    IF obj.model = "EK60" THEN SaveEK60(obj) ELSE SaveEK80(obj)

\* save has returned
SaveReturned == convert_obj.at > Len(SaveCalls(convert_obj))

\* the call save makes next
NextCall == SaveCalls(convert_obj)[convert_obj.at]

InitSave ==
    /\ \E model \in {"EK60", "EK80"}, data_type \in DataTypes,
          save_ext \in SaveExts, ids \in ChannelIdLists :
          /\ model = "EK60" =>
                ids = [complex |-> <<>>, power |-> ConfigChannels]
          /\ convert_obj = [kind |-> "SetGroups", model |-> model,
                            data_type |-> data_type, save_ext |-> save_ext,
                            ch_ids |-> ids, at |-> 1]
    /\ outputs \in [main : {NoContainer, OldContainer},
                    cw : {NoContainer, OldContainer}]
    /\ trace = <<>>
    /\ PathIdle
    /\ EdIdle
    /\ TimeIdle
    /\ FsIdle
    /\ pc = "idle"
    /\ sonar_model = "EK60"
    /\ input_paths = <<"a.nc">>
    /\ engine = "netcdf4"
    /\ out = NoContainer
    /\ log = <<>>
    /\ err = NoError
    /\ utcnow = 0
    /\ rerun = FALSE
    /\ disk = Paths

\* save is about to call the writer
Calls(writer) ==
    /\ ~SaveReturned
    /\ NextCall.writer = writer

\* the writer save calls saves its dataset with to_netcdf or to_zarr
Saved ==
    /\ outputs' =
          [outputs EXCEPT ![NextCall.path] =
              IF convert_obj.save_ext = ".nc"
              THEN ToNetcdf(@, NextCall.group, NextCall.ds, NextCall.mode)
              ELSE ToZarr(@, NextCall.group, NextCall.ds, NextCall.mode)]
    /\ trace' = Append(trace, [op |-> "write", group |-> NextCall.group,
                               path |-> NextCall.path,
                               mode |-> NextCall.mode])
    /\ convert_obj' = [convert_obj EXCEPT !.at = @ + 1]
    /\ UNCHANGED <<combineVars, disk, pathVars, edVars, timeVars, fsVars>>

SetToplevel ==
    /\ Calls("set_toplevel")
    /\ Saved

SetProvenance ==
    /\ Calls("set_provenance")
    /\ Saved

SetSonar ==
    /\ Calls("set_sonar")
    /\ Saved

SetEnv ==
    /\ Calls("set_env")
    /\ Saved

SetPlatform ==
    /\ Calls("set_platform")
    /\ Saved

SetBeam ==
    /\ Calls("set_beam")
    /\ Saved

SetNmea ==
    /\ Calls("set_nmea")
    /\ Saved

SetVendor ==
    /\ Calls("set_vendor")
    /\ Saved

\* new_path = self._copy_file(self.output_path): what is at the '_cw' path
\* is removed and the output is copied there, tree or file
CopyFile ==
    /\ Calls("_copy_file")
    /\ outputs' = [outputs EXCEPT !.cw = outputs.main]
    /\ trace' = Append(trace, [op |-> "copy", path |-> "cw"])
    /\ convert_obj' = [convert_obj EXCEPT !.at = @ + 1]
    /\ UNCHANGED <<combineVars, disk, pathVars, edVars, timeVars, fsVars>>

NextSave ==
    \/ SetToplevel
    \/ SetProvenance
    \/ SetSonar
    \/ SetEnv
    \/ SetPlatform
    \/ SetBeam
    \/ SetNmea
    \/ SetVendor
    \/ CopyFile

SpecSave == InitSave /\ [][NextSave]_vars

(***************************************************************************)
(* Properties.                                                             *)
(***************************************************************************)
\* the groups the current call has written, in the order of the writes
LogGroups == [i \in 1..Len(log) |-> log[i].group]

\* the current call has written the group
WrittenInCall(group) == \E i \in 1..Len(log) : log[i].group = group

IsPrefix(s, t) ==
    /\ Len(s) <= Len(t)
    /\ \A i \in 1..Len(s) : s[i] = t[i]

RECURSIVE RowsInInputOrder(_, _, _)
\* the rows of files i, i+1, ... of the list along an axis, file after file
RowsInInputOrder(paths, axis, i) ==
    IF i > Len(paths)
    THEN <<>>
    ELSE Rows(paths[i], axis) \o RowsInInputOrder(paths, axis, i + 1)

RECURSIVE SumOfLengths(_, _, _)
SumOfLengths(paths, axis, i) ==
    IF i > Len(paths)
    THEN 0
    ELSE Len(AxisValues(paths[i], axis)) + SumOfLengths(paths, axis, i + 1)

\* valid inputs of ConcatOrdered: along the axis every file is sorted and
\* ends before the next file of the list begins
Chronological(paths, axis) ==
    /\ \A i \in 1..Len(paths) : Monotonic(Rows(paths[i], axis))
    /\ \A i \in 1..(Len(paths) - 1) :
         AxisValues(paths[i], axis)[Len(AxisValues(paths[i], axis))]
            < FirstItem(paths[i + 1], axis)

\* C1: for a list of inputs in chronological order, the Beam group, the
\* Environment group and (for EK60) the Platform group the call has written
\* hold the ping_time rows of every input, file after file in the order of
\* the list, so the combined ping_time is as long as the inputs' together.
C1_AllRowsInInputOrder ==
    Chronological(input_paths, "ping_time") =>
        LET all == RowsInInputOrder(input_paths, "ping_time", 1)
            total == SumOfLengths(input_paths, "ping_time", 1)
        IN  /\ WrittenInCall("Beam") =>
                /\ out["Beam"].ping_time = all
                /\ Len(out["Beam"].ping_time) = total
            /\ WrittenInCall("Environment") =>
                /\ out["Environment"].ping_time = all
                /\ Len(out["Environment"].ping_time) = total
            /\ (WrittenInCall("Platform") /\ sonar_model = "EK60") =>
                /\ out["Platform"].axes["ping_time"] = all
                /\ Len(out["Platform"].axes["ping_time"]) = total

\* a call on several files in chronological order has returned for EK60
C1_Witness ==
    /\ pc = "done"
    /\ sonar_model = "EK60"
    /\ Len(input_paths) >= 2
    /\ Chronological(input_paths, "ping_time")

\* C2: once the call has written the Sonar group, the TopLevel and Sonar
\* groups of the output are those of the first input of the list, whatever
\* the other inputs are.
C2_TakeFirst ==
    WrittenInCall("Sonar") =>
        /\ out["TopLevel"] = TopLevelOf(input_paths[1])
        /\ out["Sonar"] = SonarOf(input_paths[1])

\* a call has returned whose last input is not its first
C2_Witness ==
    /\ pc = "done"
    /\ Len(input_paths) >= 2
    /\ input_paths[Len(input_paths)] # input_paths[1]

\* the order of the writes as the specification has it
ClaimedOrder(model) ==
    <<"TopLevel", "Sonar", "Provenance", "Environment", "Beam", "Platform">>
    \o (IF model \in {"EK60", "EK80", "EA640"}
        THEN <<"Platform/NMEA">> ELSE <<>>)
    \o <<"Vendor">>

\* the order of the writes with Beam before Environment
AmendedOrder(model) ==
    <<"TopLevel", "Sonar", "Provenance", "Beam", "Environment", "Platform">>
    \o (IF model \in {"EK60", "EK80", "EA640"}
        THEN <<"Platform/NMEA">> ELSE <<>>)
    \o <<"Vendor">>

\* C3 as stated: the groups are written in the order TopLevel, Sonar,
\* Provenance, Environment, Beam, Platform, Platform/NMEA, Vendor, the
\* Environment group before the Beam group.
C3_ClaimedOrder == IsPrefix(LogGroups, ClaimedOrder(sonar_model))

\* C3 amended: the groups are written in the order TopLevel, Sonar,
\* Provenance, Beam, Environment, Platform, Platform/NMEA (for the models
\* that have it), Vendor: the Beam group before the Environment group; a
\* call that has returned has written them all.
C3_WriteOrder ==
    /\ IsPrefix(LogGroups, AmendedOrder(sonar_model))
    /\ pc = "done" => LogGroups = AmendedOrder(sonar_model)

\* a call has returned after writing Platform/NMEA
C3_Witness ==
    /\ pc = "done"
    /\ WrittenInCall("Platform/NMEA")
    /\ WrittenInCall("Beam")
    /\ WrittenInCall("Environment")

\* C4: the first save_file call of a call writes TopLevel in mode 'w',
\* every later one is in mode 'a', and every group the call has written so
\* far is still in the output.
C4_CreateThenAppend ==
    /\ \A i \in 1..Len(log) :
         log[i].mode = (IF i = 1 THEN "w" ELSE "a")
    /\ Len(log) >= 1 => log[1].group = "TopLevel"
    /\ \A i \in 1..Len(log) : out[log[i].group] # Absent

\* a call has returned with the eight groups written
C4_Witness ==
    /\ pc = "done"
    /\ Len(log) = Cardinality(GroupNames)

\* the state a call is left in by an exception: the groups before the
\* failing one are written and present, the failing one and the later ones
\* are neither written nor present
AbortedAt ==
    LET seq == AmendedOrder(sonar_model)
        k == CHOOSE i \in 1..Len(seq) : seq[i] = err.group
    IN  /\ err.group \in GroupNames
        /\ err.kind # "none"
        /\ LogGroups = SubSeq(seq, 1, k - 1)
        /\ \A i \in 1..Len(seq) :
             IF i < k THEN out[seq[i]] # Absent ELSE out[seq[i]] = Absent

\* C5: when combining a group fails the call ends with the error; the
\* groups written before it are still in the output, the failing group and
\* the later ones are not, and nothing happens afterwards but a new call,
\* which starts again from the TopLevel group.
C5_AbortKeepsPartialOutput ==
    [][/\ pc' = "failed" => AbortedAt'
       /\ pc = "failed" => (pc' = "TopLevel" /\ log' = <<>>)]_vars

\* a call has failed after writing four groups or more
C5_Witness ==
    /\ pc = "failed"
    /\ Len(log) >= 4
    /\ out["Beam"] # Absent

\* C6: the Provenance group a call has written was written once, and holds
\* the tool name, the tool version, the clock reading of the call cut to
\* whole seconds with the marker Z, and the list of input paths as passed.
C6_ProvenanceSynthesized ==
    WrittenInCall("Provenance") =>
        LET prov == out["Provenance"]
        IN  /\ DOMAIN prov = {"conversion_software_name",
                              "conversion_software_version",
                              "conversion_time", "src_filenames"}
            /\ prov.conversion_software_name = "echopype"
            /\ prov.conversion_software_version = ECHOPYPE_VERSION
            /\ prov.src_filenames = input_paths
            /\ prov.conversion_time.suffix = "Z"
            /\ prov.conversion_time.seconds * TicksPerSecond <= utcnow
            /\ utcnow < (prov.conversion_time.seconds + 1) * TicksPerSecond
            /\ Cardinality({i \in 1..Len(log) :
                              log[i].group = "Provenance"}) = 1

\* a call that lists a file twice has written its Provenance group at a
\* clock reading that is not a whole second
C6_Witness ==
    /\ WrittenInCall("Provenance")
    /\ Len(input_paths) >= 2
    /\ input_paths[1] = input_paths[2]
    /\ utcnow % TicksPerSecond # 0

\* what a call writes to a group, from its arguments alone
ExpectedGroup(model, paths, group) ==
    CASE group = "TopLevel" -> TopLevelOf(paths[1])
      [] group = "Sonar" -> SonarOf(paths[1])
      [] group = "Beam" -> CombinedBeam(model, paths)
      [] group = "Environment" -> CombinedEnvironment(paths)
      [] group = "Platform" -> CombinedPlatform(model, paths)
      [] group = "Platform/NMEA" ->
            IF model \in {"EK60", "EK80", "EA640"}
            THEN CombinedNMEA(paths) ELSE Absent
      [] group = "Vendor" -> CombinedVendor(model, paths)

\* C7: the output of a call that has returned is a function of the call's
\* arguments in every group but the Provenance group, where only the
\* creation time is not; so two calls with the same arguments agree up to
\* the creation time, and nothing of an earlier output is left.
C7_RerunReplaces ==
    pc = "done" =>
        /\ \A g \in GroupNames \ {"Provenance"} :
             out[g] = ExpectedGroup(sonar_model, input_paths, g)
        /\ [out["Provenance"] EXCEPT !.conversion_time = 0]
             = [AssembleCombinedProvenance(input_paths, 0)
                   EXCEPT !.conversion_time = 0]

\* a call has returned that repeated the call before it, at another second
C7_Witness ==
    /\ pc = "done"
    /\ rerun
    /\ out["Provenance"].conversion_time.seconds # 0

SameChannelSet(model, paths) ==
    \A i \in 1..Len(paths) :
        Channels(model, paths[i]) = Channels(model, paths[1])

\* C8 as stated: a call whose inputs do not all have the same channel
\* identifiers never returns with a combined output.
C8_SchemaMismatchRejected ==
    ~SameChannelSet(sonar_model, input_paths) => pc # "done"

\* the inputs' Platform groups agree: on every variable two of them share
\* and on the group's attributes
PlatformsAgree(model, paths) ==
    \A i, j \in 1..Len(paths) :
        /\ PlatformAttrs(model, paths[i]) = PlatformAttrs(model, paths[j])
        /\ \A k \in (DOMAIN PlatformVars(model, paths[i]))
                     \cap (DOMAIN PlatformVars(model, paths[j])) :
              PlatformVars(model, paths[i])[k] = PlatformVars(model, paths[j])[k]

\* C9 as stated: for AZFP the Platform group is written only when the
\* inputs' Platform groups agree in every shared variable and attribute,
\* and a call that failed on it has inputs that disagree and has written
\* neither the Platform group nor a later one.
C9_IdenticalRequired ==
    sonar_model = "AZFP" =>
        /\ WrittenInCall("Platform") => PlatformsAgree(sonar_model, input_paths)
        /\ (pc = "failed" /\ err.group = "Platform") =>
              /\ ~PlatformsAgree(sonar_model, input_paths)
              /\ out["Platform"] = Absent
              /\ out["Vendor"] = Absent

\* where the call has written the group
LogIndex(group) == CHOOSE i \in 1..Len(log) : log[i].group = group

\* C10: the Platform group is combined as sonar_model alone says: AZFP by
\* an identical-required merge without concatenation axis, EK80 and EA640
\* along location_time and mru_time, EK60 along location_time and
\* ping_time; it is written once; the Platform/NMEA group is written, along
\* location_time and right after Platform, by a call for EK60, EK80 or
\* EA640 and by no other, before the Vendor group.
C10_PlatformPolicyByModel ==
    /\ WrittenInCall("Platform") =>
         /\ Cardinality({i \in 1..Len(log) : log[i].group = "Platform"}) = 1
         /\ out["Platform"].policy.compat =
              (IF sonar_model = "AZFP" THEN "identical" ELSE "no_conflicts")
         /\ out["Platform"].policy.combine =
              (IF sonar_model = "AZFP" THEN "nested" ELSE "by_coords")
         /\ DOMAIN out["Platform"].axes =
              (CASE sonar_model = "AZFP" -> {}
                 [] sonar_model \in {"EK80", "EA640"} ->
                       {"location_time", "mru_time"}
                 [] sonar_model = "EK60" -> {"location_time", "ping_time"})
    /\ WrittenInCall("Platform/NMEA") =>
         /\ sonar_model \in {"EK60", "EK80", "EA640"}
         /\ LogIndex("Platform/NMEA") = LogIndex("Platform") + 1
         /\ "location_time" \in DOMAIN out["Platform/NMEA"]
    /\ WrittenInCall("Vendor") =>
         /\ WrittenInCall("Platform")
         /\ WrittenInCall("Platform/NMEA")
              <=> sonar_model \in {"EK60", "EK80", "EA640"}
         /\ WrittenInCall("Platform/NMEA") =>
              LogIndex("Platform/NMEA") < LogIndex("Vendor")

\* a call for EK60 has returned with both groups written
C10_Witness ==
    /\ pc = "done"
    /\ sonar_model = "EK60"
    /\ out["Platform"] # Absent
    /\ out["Platform/NMEA"] # Absent

\* the chunk sizes of a written group, axis by axis
ChunksOf(group) == out[group].chunks

C12_NoCoercionEK80EA640 ==
    (sonar_model \in {"EK80", "EA640"} /\ WrittenInCall("Beam")) =>
        \A f \in DOMAIN out["Beam"].text :
            out["Beam"].text[f]
               = NaturalWidth(input_paths, {"ping_time"}, f)

\* C12 amended: for EA640 (and AZFP) the text fields of the Beam group the
\* call has written have the widths the concatenation gave them; for EK80
\* the software version field is 10 characters wide and the channel_id
\* field 50 wide, as for EK60.
C12_CoercionByModel ==
    WrittenInCall("Beam") =>
        /\ sonar_model \in {"EA640", "AZFP"} =>
              \A f \in DOMAIN out["Beam"].text :
                  out["Beam"].text[f]
                     = NaturalWidth(input_paths, {"ping_time"}, f)
        /\ sonar_model = "EK80" =>
              /\ out["Beam"].text["software_version"] = 10
              /\ out["Beam"].text["channel_id"] = 50

\* a call for EK80 has written the Beam group from several inputs whose
\* text fields are not of the fixed widths
C12_Witness ==
    /\ sonar_model = "EK80"
    /\ WrittenInCall("Beam")
    /\ NaturalWidth(input_paths, {"ping_time"}, "channel_id") # ChannelIdWidth
    /\ NaturalWidth(input_paths, {"ping_time"}, "software_version")
          # VersionWidth
    /\ Len(input_paths) >= 2

\* the chunk-size table of the specification, for a group and an axis
ClaimedChunk(group, axis) ==
    CASE axis = "range_bin" -> 25000
      [] axis = "ping_time" /\ group = "Environment" -> 2500
      [] OTHER -> 100

\* C13 as stated: every group perform_combination chunks and every group a
\* per-file writer chunks has the chunk sizes of the table: range_bin
\* 25000, ping_time 2500 in Environment and 100 in Beam and Platform,
\* location_time and mru_time 100.
C13_ChunkTable ==
    /\ \A g \in {"Beam", "Environment", "Platform", "Platform/NMEA"} :
         WrittenInCall(g) =>
            \A x \in DOMAIN ChunksOf(g) : ChunksOf(g)[x] = ClaimedChunk(g, x)
    /\ \A m \in WriterModels, g \in GroupNames, e \in SaveExts :
         \A x \in DOMAIN WriterChunks(m, g, e) :
            WriterChunks(m, g, e)[x] = ClaimedChunk(g, x)

\* C13 amended: perform_combination chunks range_bin at 25000 and every
\* time axis (ping_time, location_time, mru_time) at 2500, in the Beam, the
\* Environment, the Platform (but for AZFP, which it does not chunk) and the
\* Platform/NMEA group; the per-file writers chunk only a '.zarr' output and
\* only Beam and Platform, range_bin at 25000 and the time axes at 100.
C13_ChunksByWriter ==
    /\ \A g \in {"Beam", "Environment", "Platform", "Platform/NMEA"} :
         WrittenInCall(g) =>
            /\ \A x \in DOMAIN ChunksOf(g) :
                  ChunksOf(g)[x] = (IF x = "range_bin" THEN 25000 ELSE 2500)
            /\ DOMAIN ChunksOf(g) =
                  (CASE g = "Beam" -> {"range_bin", "ping_time"}
                     [] g = "Environment" -> {"ping_time"}
                     [] g = "Platform/NMEA" -> {"location_time"}
                     [] g = "Platform" ->
                          PlatformPolicy(sonar_model).concat_dim)
    /\ \A m \in WriterModels, g \in GroupNames, e \in SaveExts :
         /\ \A x \in DOMAIN WriterChunks(m, g, e) :
               WriterChunks(m, g, e)[x]
                  = (IF x = "range_bin" THEN 25000 ELSE 100)
         /\ DOMAIN WriterChunks(m, g, e) # {} =>
               (e = ".zarr" /\ g \in {"Beam", "Platform"})

\* a call for EK80 has returned with the four chunked groups written
C13_Witness ==
    /\ pc = "done"
    /\ sonar_model = "EK80"
    /\ DOMAIN ChunksOf("Platform") = {"location_time", "mru_time"}
    /\ ChunksOf("Beam")["ping_time"] = PingTimeChunk
    /\ ChunksOf("Platform/NMEA")["location_time"] = PingTimeChunk

\* C14: no step of a call of perform_combination, returning or failing,
\* removes an input container from the disk or puts one there: the disk
\* changes only between calls, by remove_indiv_files taking one path away
\* and leaving the call's state and the output as they are.  (The contents
\* of a container are a function of its path throughout.)
C14_InputsUntouched ==
    [][/\ (pc' # pc \/ pc \notin {"idle", "done", "failed"}) => disk' = disk
       /\ disk' # disk =>
             /\ pc \in {"idle", "done", "failed"}
             /\ UNCHANGED combineVars
             /\ \E path \in disk : disk' = disk \ {path}]_vars

\* after a file was removed, a call on the two files that are left has
\* failed after writing the Beam group, and both are still on the disk
C14_Witness ==
    /\ Cardinality(disk) = 2
    /\ pc = "failed"
    /\ WrittenInCall("Beam")
    /\ Readable(input_paths)
    /\ Len(input_paths) = 2
    /\ input_paths[1] # input_paths[2]
    /\ utcnow # 0

\* C15: the path get_combined_save_path returns is the path of the first
\* element of source_paths with the marker '__combined' put in it: what is
\* before the marker and what is after it make up that path, what is after
\* it is that path's extension (nothing, when it has none, the marker then
\* being at the end), the result has the same extension, and the result is
\* what the call returns for the first element alone.
C15_MarkerBeforeExtension ==
    save_path # NotCalled =>
        LET first == source_paths[1].path
            res == save_path.path
            ext == SplitExt(first).ext
            k == Len(first) - Len(ext)
        IN  /\ Len(res) = Len(first) + 1
            /\ SubSeq(res, 1, k) \o SubSeq(res, k + 2, Len(res)) = first
            /\ res[k + 1] = "__combined"
            /\ SubSeq(res, k + 2, Len(res)) = ext
            /\ SplitExt(res).ext = ext
            /\ ext = <<>> => res = first \o <<"__combined">>
            /\ save_path = GetCombinedSavePath(<<source_paths[1]>>)

\* the call has returned for a list of several elements whose first is
\* the path './x.nc', which has a dot in its directory and an extension
C15_Witness ==
    /\ save_path # NotCalled
    /\ Len(source_paths) >= 2
    /\ source_paths[1].path = <<".", "/", "x", ".", "nc">>
    /\ source_paths[1].kind = "str"
    /\ save_path.path = <<".", "/", "x", "__combined", ".", "nc">>

\* the string has one of the two container extensions, as os.path.splitext
\* gives the extension
HasContainerExt(val) ==
    IsStr(val) /\ SplitExt(val.str).ext \in {DotNc, DotZarr}

\* the text of the string ends in '.nc' or in '.zarr'
EndsInContainerExt(val) ==
    IsStr(val) /\ (EndsWith(val.str, DotNc) \/ EndsWith(val.str, DotZarr))

\* the last operation was an assignment to the path of a product
Assigned == ret.op = "assign"

TreatedAsDirectory ==
    \E r \in GetFilesFromDir(ret'.arg.str) :
       \/ /\ r.ok
          /\ ed'.path[ret'.product] = r.files
          /\ ret'.kind = Returned
                => ed'.view[ret'.product] = Opened(r.files.list)
          /\ ret'.kind \in {Returned, "OSError"}
       \/ /\ ~r.ok
          /\ ed' = ed
          /\ ret'.kind = Exception(r.error)

\* C17 as stated: an assignment of a string that does not end in '.nc' or
\* '.zarr', whatever its extension, is treated as a directory to be listed,
\* and only a value that is neither a string nor a list is rejected with
\* the unsupported-path error.
C17_AnyOtherStringListed ==
    [][ret'.op = "assign" =>
          /\ (IsStr(ret'.arg) /\ ~EndsInContainerExt(ret'.arg))
                => TreatedAsDirectory
          /\ ret'.kind = Exception("ValueError")
                => (~IsStr(ret'.arg) /\ ~IsList(ret'.arg))]_vars

\* the value is one _update_file_list has no branch for
Unsupported(val) ==
    \/ IsStr(val) /\ SplitExt(val.str).ext \notin {<<>>, DotNc, DotZarr}
    \/ ~IsStr(val) /\ ~IsList(val) /\ val # None

\* C17 amended: an assignment of a string without extension is treated as
\* a directory to be listed; an assignment of a string with an extension
\* other than '.nc' and '.zarr', and one of a value that is neither None,
\* a string nor a list, is rejected with the unsupported-path error and
\* changes nothing; nothing else is rejected with that error.
C17_DirectoryOrRejected ==
    [][ret'.op = "assign" =>
          /\ (IsStr(ret'.arg) /\ SplitExt(ret'.arg.str).ext = <<>>)
                => TreatedAsDirectory
          /\ Unsupported(ret'.arg)
                => (ret'.kind = Exception("ValueError") /\ ed' = ed)
          /\ ~Unsupported(ret'.arg)
                => ret'.kind # Exception("ValueError")]_vars

\* a product holds the listing of the directory, in lexical order, and the
\* assignment to it of a string with the extension '.x' has been rejected
C17_Witness ==
    /\ Assigned
    /\ ret.arg = Str(<<"x", ".", "x">>)
    /\ ret.kind = Exception("ValueError")
    /\ ed.path[ret.product] = List(<<InDirNc, InDirX>>)
    /\ ed.view[ret.product] = Opened(<<InDirNc, InDirX>>)

\* C18 as stated: an assignment that returns leaves the product with the
\* list and the view of the value assigned and nothing of what it had; an
\* assignment of None, of the empty string or of the empty list returns
\* and leaves the product without list and without view.
C18_ReassignReplacesEmptyClears ==
    Assigned =>
        /\ (ret.kind = Returned /\ ret.arg # None) =>
              \E r \in UpdateFileList(ret.arg) :
                 /\ r.ok
                 /\ ed.path[ret.product] = r.files
                 /\ ed.view[ret.product] = Opened(FilesToOpen(r.files))
        /\ ret.arg \in {None, Str(<<>>), List(<<>>)} =>
              /\ ret.kind = Returned
              /\ ed.path[ret.product] \in {None, List(<<>>)}
              /\ ed.view[ret.product] = None

\* the constructor called without arguments
NoArgs == [p \in Products |-> None]

\* C19 as stated: an object can be made without any path, and reading the
\* view of a product whose path is unset prints the notice, returns None
\* and does not raise.
C19_UnsetViewSignals ==
    /\ (ret.op = "init" /\ ret.args = NoArgs) =>
          (ret.kind = Returned /\ ed # NoSession)
    /\ (ret.op = "read" /\ ed.path[ret.product] = None) =>
          (ret.kind = "notice" /\ ret.value = None)

\* C20: an assignment to the path of one product, whether it returns or
\* raises, leaves the stored path and the view of the four other products
\* as they were.
C20_OtherProductsUnchanged ==
    [][ret'.op = "assign" =>
          \A q \in Products \ {ret'.product} :
             /\ ed'.path[q] = ed.path[q]
             /\ ed'.view[q] = ed.view[q]]_vars

\* the assignment of the empty list to TS_path has raised while raw and Sv
\* hold a file with its view
C20_Witness ==
    /\ Assigned
    /\ ret.product = "TS"
    /\ ret.arg = List(<<>>)
    /\ ret.kind = Exception("OSError")
    /\ ed.path["Sv"] = Str(FileX)
    /\ ed.view["Sv"] = Opened(<<FileX>>)
    /\ ed.path["raw"] = Str(FileX)
    /\ ed.view["raw"] = Opened(<<FileX>>)

\* one microsecond, in nanoseconds
Microsecond == 10^3

\* the distance, in nanoseconds scaled by 2^exp, between the instant and the
\* epoch plus the stored seconds, is below one microsecond
WithinMicrosecond(t, x) ==
    Less(Distance(MulSmall(MulSmall(x.mant, PowerOfFive), 2^PowerOfTwo),
                  ShiftLeft(SinceEpoch(t), x.exp)),
         ShiftLeft(FromInt(Microsecond), x.exp))

\* the epoch plus the stored seconds is the instant itself
Exact(t, x) ==
    MulSmall(MulSmall(x.mant, PowerOfFive), 2^PowerOfTwo)
        = ShiftLeft(SinceEpoch(t), x.exp)

\* C21: for every instant from 1900-01-01 to 2100-01-01, the epoch plus the
\* seconds the writers store for it is less than one microsecond away from
\* the instant
C21_NormalizeInvertible ==
    seconds.kind = "float64" => WithinMicrosecond(ping_time, seconds.value)

\* an instant of the last day before 2100 whose count of nanoseconds is no
\* float64: the stored seconds are rounded, and still within a microsecond
C21_Witness ==
    /\ seconds.kind = "float64"
    /\ ping_time.day = DaysTo2100 - 1
    /\ ping_time.nano = 123456000
    /\ ~Exact(ping_time, seconds.value)
    /\ WithinMicrosecond(ping_time, seconds.value)

\* the call stands for recursive removal: a mapper, or the store extension
Recursive(path) ==
    path.kind # "str" \/ SplitExt(path.path).ext = DotZarr

\* the path names a converted container of the file system: a file, or a
\* directory-chunked store, that is, a directory passed by a mapper or
\* with the store extension
IsContainer(t, path) ==
    /\ Exists(t, path.path)
    /\ IsDir(t, path.path) => Recursive(path)
    /\ ~IsDir(t, path.path) => (path.kind # "str"
                                   \/ SplitExt(path.path).ext # DotZarr)

\* C22: remove_indiv_files removes the container at the path, with all that
\* is in it, and nothing else; a directory is removed, recursively, only
\* through a mapper or under the store extension, and every other path is
\* removed as a single file, so that a directory at it stays
C22_RemovesExactlyTheContainer ==
    removal.kind # "none" =>
        /\ Without(tree, removal.path.path)
              = Without(removal.before, removal.path.path)
        /\ IsContainer(removal.before, removal.path) =>
              /\ removal.kind = Returned
              /\ tree = Without(removal.before, removal.path.path)
        /\ IsDir(removal.before, removal.path.path) =>
              IF Recursive(removal.path)
              THEN tree = Without(removal.before, removal.path.path)
              ELSE tree = removal.before /\ removal.kind # Returned

\* the store x.zarr, passed as a string, has been removed with the group
\* and the files in it, and the other containers are all still there
C22_Witness ==
    /\ removal.kind = Returned
    /\ removal.path = Source("str", <<"x", ".", "zarr">>)
    /\ removal.before = AllNodes
    /\ Cardinality(tree) = Cardinality(AllNodes) - 4
    /\ File(<<"x", ".", "nc">>) \in tree
    /\ Directory(<<"x">>) \in tree

\* the resolved list of a path specification that names existing files
Resolved(val) ==
    IF val = Str(DirX) THEN List(<<InDirNc, InDirX>>) ELSE val

\* C23 as stated: the constructor returns when raw_path is one container
\* path, an explicit list, a directory or unset, whatever the other paths
\* are among unset and a container path, and the object then holds the
\* resolved list as its raw path.
C23_ConstructorAcceptsEverySpec ==
    (/\ ret.op = "init"
     /\ ret.args["raw"] \in {None, Str(FileX), List(ListXNcX), Str(DirX)}
     /\ \A p \in Products \ {"raw"} : ret.args[p] \in PlainSpecs) =>
        /\ ret.kind = Returned
        /\ ed # NoSession
        /\ ed.path["raw"] = Resolved(ret.args["raw"])

\* C24 as stated: in every state of a session each product has a view
\* exactly when it has a path, and the view is the one opened from the
\* files of that path.
C24_ViewMatchesPath ==
    ed # NoSession =>
        \A p \in Products :
           /\ ed.view[p] # None <=> ed.path[p] # None
           /\ ed.view[p] # None =>
                 ed.view[p] = Opened(FilesToOpen(ed.path[p]))

\* C25 as stated: a path assignment that raises, in the resolution of the
\* value or in the opening of the files, leaves the stored path and the
\* view of the product as they were.
C25_FailedAssignmentChangesNothing ==
    [][(ret'.op = "assign" /\ ret'.kind # Returned) =>
          /\ ed'.path[ret'.product] = ed.path[ret'.product]
          /\ ed'.view[ret'.product] = ed.view[ret'.product]]_vars

\* the format and the opener that belong to a raw path
FormatOf(path) ==
    IF IsStr(path) /\ SplitExt(path.str).ext = DotNc
    THEN [file_format |-> "netcdf", open_dataset |-> "xr.open_dataset"]
    ELSE IF IsStr(path) /\ SplitExt(path.str).ext = DotZarr
         THEN [file_format |-> "zarr", open_dataset |-> "xr.open_zarr"]
         ELSE [file_format |-> None, open_dataset |-> None]

\* C26 as stated: in every state of a session whose raw path is a path with
\* the extension '.nc' or '.zarr', the recorded file format and the dataset
\* opener are those of that extension.
C26_FormatFollowsRawPath ==
    (/\ ed # NoSession
     /\ IsStr(ed.path["raw"])
     /\ SplitExt(ed.path["raw"].str).ext \in {DotNc, DotZarr}) =>
        /\ ed.file_format = FormatOf(ed.path["raw"]).file_format
        /\ ed.open_dataset = FormatOf(ed.path["raw"]).open_dataset

\* the groups every channel of an EK80 file shares, and those written for
\* one kind of channel
SharedGroups ==
    {"TopLevel", "Provenance", "Environment", "Platform", "Platform/NMEA"}

TypeSpecificGroups == {"Beam", "Sonar", "Vendor"}

\* save of an EK80 file with all datagrams and with complex and power
\* channels
BothKinds ==
    /\ convert_obj.kind = "SetGroups"
    /\ convert_obj.model = "EK80"
    /\ convert_obj.data_type = "ALL"
    /\ convert_obj.ch_ids.complex # <<>>
    /\ convert_obj.ch_ids.power # <<>>

\* the groups the writes before the i-th event of the trace were for
WrittenBefore(i) ==
    {trace[j].group : j \in {k \in 1..(i - 1) : trace[k].op = "write"}}

\* the channels the entries of a table or of a list of ids are about
ChannelsIn(table) == {table[i].channel : i \in DOMAIN table}

\* C27 as stated: when an EK80 file has complex and power channels and save
\* has returned, the Beam, Sonar and Vendor groups of the main output are
\* about the complex channels only and those of the '_cw' output about the
\* power channels only.
C27_SpecificGroupsOfOwnChannelsOnly ==
    (BothKinds /\ SaveReturned) =>
        /\ Range(outputs.main["Beam"].channel_id)
              \subseteq Range(convert_obj.ch_ids.complex)
        /\ Range(outputs.cw["Beam"].channel_id)
              \subseteq Range(convert_obj.ch_ids.power)
        /\ \A t \in {outputs.main["Sonar"].serial_number,
                      outputs.main["Vendor"].calibration,
                      outputs.main["Vendor"].filters} :
              ChannelsIn(t) \subseteq Range(convert_obj.ch_ids.complex)
        /\ \A t \in {outputs.cw["Sonar"].serial_number,
                      outputs.cw["Vendor"].calibration,
                      outputs.cw["Vendor"].filters} :
              ChannelsIn(t) \subseteq Range(convert_obj.ch_ids.power)

\* C27, amended: when an EK80 file has complex and power channels, save
\* copies the output to the '_cw' path once, after it has written TopLevel,
\* Provenance, Environment, Platform and Platform/NMEA and before it writes
\* any Beam, Sonar or Vendor group, and the copy replaces what was at the
\* '_cw' path; when save has returned, the two outputs hold the same shared
\* groups, the main output holds the Beam, Sonar and Vendor groups written
\* by the calls for the complex channels and the '_cw' output those written
\* by the calls for the power channels. The Beam group and the calibration
\* and pulse length tables of the Vendor group are about those channels
\* only; the table of the Sonar group and the filter coefficients of the
\* Vendor group cover every channel of the file in both outputs.
C27_CopyBetweenSharedAndSpecific ==
    BothKinds =>
        /\ \A i \in DOMAIN trace :
              trace[i].op = "copy" =>
                 /\ WrittenBefore(i) = SharedGroups
                 /\ \A j \in DOMAIN trace : trace[j].op = "copy" => j = i
        /\ \A i \in DOMAIN trace :
              (trace[i].op = "write" /\ trace[i].group \in TypeSpecificGroups)
                 => \E j \in 1..(i - 1) : trace[j].op = "copy"
        /\ (trace # <<>> /\ trace[Len(trace)].op = "copy") =>
              outputs.cw = outputs.main
        /\ SaveReturned =>
              /\ \A g \in SharedGroups :
                    /\ outputs.main[g] = outputs.cw[g]
                    /\ outputs.main[g] \notin {Absent, [old |-> TRUE]}
              /\ outputs.main["Beam"]
                    = BeamEK80(convert_obj.ch_ids.complex, TRUE,
                               convert_obj.save_ext)
              /\ outputs.cw["Beam"]
                    = BeamEK80(convert_obj.ch_ids.power, FALSE,
                               convert_obj.save_ext)
              /\ outputs.main["Sonar"] = SonarEK80(convert_obj.ch_ids.complex)
              /\ outputs.cw["Sonar"] = SonarEK80(convert_obj.ch_ids.power)
              /\ outputs.main["Vendor"]
                    = VendorEK80(convert_obj.ch_ids.complex, TRUE,
                                 convert_obj.ch_ids.power
                                    \o convert_obj.ch_ids.complex)
              /\ outputs.cw["Vendor"]
                    = VendorEK80(convert_obj.ch_ids.power, FALSE,
                                 convert_obj.ch_ids.power
                                    \o convert_obj.ch_ids.complex)
              /\ outputs.main["Vendor"].pulse_length = <<>>
              /\ outputs.cw["Vendor"].pulse_length # <<>>
              /\ Range(outputs.main["Beam"].channel_id)
                    = Range(convert_obj.ch_ids.complex)
              /\ Range(outputs.cw["Beam"].channel_id)
                    = Range(convert_obj.ch_ids.power)
              /\ ChannelsIn(outputs.main["Vendor"].calibration)
                    = Range(convert_obj.ch_ids.complex)
              /\ ChannelsIn(outputs.cw["Vendor"].calibration)
                    = Range(convert_obj.ch_ids.power)
              /\ ChannelsIn(outputs.cw["Vendor"].pulse_length)
                    = Range(convert_obj.ch_ids.power)
              /\ \A o \in {outputs.main, outputs.cw} :
                    /\ ChannelsIn(o["Sonar"].serial_number)
                          = Range(ConfigChannels)
                    /\ ChannelsIn(o["Vendor"].filters)
                          = Range(ConfigChannels)

\* save has returned for a zarr file with one complex and two power
\* channels; eleven groups were written and the output copied in between
C27_Witness ==
    /\ BothKinds
    /\ SaveReturned
    /\ convert_obj.save_ext = ".zarr"
    /\ Len(convert_obj.ch_ids.power) = 2
    /\ Len(trace) = 12
    /\ trace[6].op = "copy"
    /\ outputs.cw["Beam"] # outputs.main["Beam"]
    /\ outputs.cw["Platform"] = outputs.main["Platform"]

\* the Beam groups of the EK80 outputs
BeamGroupsEK80 ==
    IF convert_obj.kind = "SetGroups" /\ convert_obj.model = "EK80"
    THEN {outputs[p]["Beam"] : p \in {"main", "cw"}}
            \ {Absent, [old |-> TRUE]}
    ELSE {}

\* C28 as stated: at every index of the frequency axis of an EK80 Beam
\* group, whatever the order of the channel ids passed to set_beam, the
\* frequency and every channel-specific parameter are those of the channel
\* named by channel_id at that index.
C28_BeamParamsAligned ==
    \A beam \in BeamGroupsEK80 :
       \A i \in DOMAIN beam.channel_id :
          /\ beam.frequency[i].channel = beam.channel_id[i]
          /\ \A p \in BeamParams : beam.params[p][i].channel = beam.channel_id[i]

\* C29 as stated: in the EK60 Environment group, sound_speed_indicative
\* holds each channel's recorded sound velocity and absorption_indicative
\* each channel's recorded absorption coefficient.
C29_EnvFieldsByName ==
    (/\ convert_obj.kind = "SetGroups"
     /\ convert_obj.model = "EK60"
     /\ outputs.main["Environment"] \notin {Absent, [old |-> TRUE]}) =>
        \A ch \in Range(ConfigChannels) :
           /\ outputs.main["Environment"].sound_speed_indicative[ch]
                 = PingData("sound_velocity", ch)
           /\ outputs.main["Environment"].absorption_indicative[ch]
                 = PingData("absorption_coefficient", ch)

\* C30 as stated: in SetGroupsEK60.save, for both formats and every data
\* type, every write after the first is in append mode, and when save has
\* returned every group it wrote is in the output.
C30_AppendAfterFirst ==
    (convert_obj.kind = "SetGroups" /\ convert_obj.model = "EK60") =>
        /\ \A i \in 2..Len(trace) : trace[i].mode = "a"
        /\ SaveReturned =>
              \A i \in DOMAIN trace :
                 outputs.main[trace[i].group] \notin {Absent, [old |-> TRUE]}
====
